---- MODULE Spec2Model ----
(***************************************************************************)
(* A model of the resilient transport and retrieval layer of the           *)
(* atlassian client library:                                               *)
(*   - TokenBucket (python/atlassian/graph/throttle.py), with concurrent   *)
(*     callers of consume;                                                 *)
(*   - the paginators (python/atlassian/graph/api/jira_worklogs.py and     *)
(*     python/atlassian/rest/api/jira_{boards,sprints,versions,worklogs}); *)
(*   - the 429 retry loop of GraphQLClient.execute, whose source is not    *)
(*     part of the tree and is modelled from the specification.            *)
(*                                                                         *)
(* Time is counted in ticks of 0.2 s and tokens in whole tokens, so a      *)
(* refill rate of 5 tokens/s is 1 token per tick and 0.4 s is 2 ticks.     *)
(* With the capacities, rates and costs drawn below every quotient         *)
(* needed / refill_rate of the code is an integer number of ticks.         *)
(***************************************************************************)
EXTENDS Integers, Sequences, FiniteSets, TLC

VARIABLES
    bucket,     \* TokenBucket fields: capacity, refill_rate, tokens, last_refill
    clock,      \* the value the injected now() returns (ticks)
    thr,        \* per caller of consume: its position and its locals
    consumed,   \* ghost: sum of the costs of the calls that returned
    exact,      \* ghost: the clock advanced only while a sleeper was waiting for it
    pg,         \* one pagination run: the paginator's locals and its position
    srv,        \* the server the run talks to, and the generated schema flags
    yielded,    \* the items handed to the consumer so far, in order
    served,     \* ghost: the items of the pages fetched so far, in server order
    ex,         \* one execute call: its settings, its attempt counter, its end
    call        \* one call of an accessor or of a helper: arguments, position, outcome

bvars == <<bucket, clock, thr, consumed, exact>>

pvars == <<pg, srv, yielded, served>>

vars == <<bucket, clock, thr, consumed, exact, pg, srv, yielded, served, ex, call>>

----------------------------------------------------------------------------
(* Bounds of the exploration. *)

\* the clock advances freely up to MaxClock; beyond it only sleepers move it
MaxClock == 2
\* largest max_wait_seconds a caller passes (ticks)
MaxWait == 2

\* the callers sharing one bucket; each makes one consume call
Threads == {"t1", "t2"}

\* (capacity, refill_rate_per_sec): 10 tokens at 5/s, and 4 tokens at 10/s
BucketConfigs ==
    { [capacity |-> 10, refill_rate |-> 1],
      [capacity |-> 4,  refill_rate |-> 2] }

\* costs a caller asks for: nothing, a little, the whole bucket, more than it
Costs(b) == {0, 2, b.capacity, b.capacity + 2}

MaxWaits == 0..MaxWait

\* what earlier calls can have taken from a fresh bucket: nothing, all but 2
\* tokens, everything
EarlierSpent(cfg) == {0, cfg.capacity - 2, cfg.capacity}

Min(a, b) == IF a <= b THEN a ELSE b

----------------------------------------------------------------------------
(* TokenBucket *)

NoError == [raised |-> FALSE, estimated_cost |-> 0, wait_seconds |-> 0,
            max_wait_seconds |-> 0]

\* errors.py: LocalRateLimitError.__init__
LocalRateLimitError(estimated_cost, wait_seconds, max_wait_seconds) ==
    [raised |-> TRUE, estimated_cost |-> estimated_cost,
     wait_seconds |-> wait_seconds, max_wait_seconds |-> max_wait_seconds]

IdleThread ==
    [pc |-> "idle", cost |-> 0, max_wait |-> 0, deadline |-> 0, waited |-> 0,
     last_wait_needed |-> 0, now |-> 0, sleep_for |-> 0, wake_at |-> 0,
     sleeps |-> 0, slept |-> 0, first_wait |-> -1, stale |-> FALSE,
     err |-> NoError]

\* TokenBucket.__init__: a full bucket, last refill at construction time
TokenBucketInit(cfg, t0) ==
    [capacity |-> cfg.capacity, refill_rate |-> cfg.refill_rate,
     tokens |-> cfg.capacity, last_refill |-> t0]

\* _refill_locked without the clamp at the capacity
refill_locked_unclamped(b, now) ==
    LET elapsed == now - b.last_refill IN
    IF elapsed > 0
    THEN [b EXCEPT !.tokens = b.tokens + elapsed * b.refill_rate,
                   !.last_refill = now]
    ELSE b

\* _refill_locked that forgets to move the last refill timestamp
refill_locked_unstamped(b, now) ==
    LET elapsed == now - b.last_refill IN
    IF elapsed > 0
    THEN [b EXCEPT !.tokens = Min(b.capacity, b.tokens + elapsed * b.refill_rate)]
    ELSE b

\* TokenBucket._refill_locked
refill_locked(b, now) ==
    LET elapsed == now - b.last_refill IN
    IF elapsed > 0
    THEN [b EXCEPT !.tokens = Min(b.capacity, b.tokens + elapsed * b.refill_rate),
                   !.last_refill = now]
    ELSE b

\* A bucket constructed at time 0, as left by earlier uncontended calls made at
\* that same instant: they took `spent` tokens without waiting.
BInit ==
    /\ clock = 0
    /\ \E cfg \in BucketConfigs : \E spent \in EarlierSpent(cfg) :
          /\ bucket = [TokenBucketInit(cfg, 0) EXCEPT !.tokens = @ - spent]
          /\ consumed = spent
    /\ thr = [t \in Threads |-> IdleThread]
    /\ exact = TRUE

\* consume whose early return is for cost < 0 only: cost 0 enters the loop
ConsumeEnter_zero_enters(t, cost, max_wait_seconds) ==
    /\ thr[t].pc = "idle"
    /\ (t = "t2" => thr["t1"].pc # "idle")
    /\ IF cost < 0
       THEN thr' = [thr EXCEPT ![t] =
                [IdleThread EXCEPT !.pc = "done", !.cost = cost,
                                   !.max_wait = max_wait_seconds]]
       ELSE thr' = [thr EXCEPT ![t] =
                [IdleThread EXCEPT !.pc = "read_now", !.cost = cost,
                                   !.max_wait = max_wait_seconds,
                                   !.deadline = clock + max_wait_seconds]]
    /\ UNCHANGED <<bucket, clock, consumed, exact, pvars, ex, call>>

\* consume, lines 44-48: the no-op for cost <= 0, else the deadline is fixed.
\* The callers are interchangeable: t1 is, by naming, the first to enter.
ConsumeEnter(t, cost, max_wait_seconds) ==
    /\ thr[t].pc = "idle"
    /\ (t = "t2" => thr["t1"].pc # "idle")
    /\ IF cost <= 0
       THEN thr' = [thr EXCEPT ![t] =
                [IdleThread EXCEPT !.pc = "done", !.cost = cost,
                                   !.max_wait = max_wait_seconds]]
       ELSE thr' = [thr EXCEPT ![t] =
                [IdleThread EXCEPT !.pc = "read_now", !.cost = cost,
                                   !.max_wait = max_wait_seconds,
                                   !.deadline = clock + max_wait_seconds]]
    /\ UNCHANGED <<bucket, clock, consumed, exact, pvars, ex, call>>

\* consume, line 51: now = self._now(), read before the lock is taken
ConsumeReadNow(t) ==
    /\ thr[t].pc = "read_now"
    /\ thr' = [thr EXCEPT ![t].now = clock, ![t].pc = "lock"]
    /\ UNCHANGED <<bucket, clock, consumed, exact, pvars, ex, call>>

\* a critical section that takes what tokens there are when they do not
\* cover the cost
ConsumeLocked_takes_partial(t) ==
    /\ thr[t].pc = "lock"
    /\ LET b == refill_locked(bucket, thr[t].now)
           cost == thr[t].cost
           stale == thr[t].stale \/ thr[t].now < bucket.last_refill
       IN IF b.tokens >= cost
          THEN /\ bucket' = [b EXCEPT !.tokens = b.tokens - cost]
               /\ thr' = [thr EXCEPT ![t].pc = "done", ![t].now = 0,
                                     ![t].deadline = 0, ![t].stale = stale]
               /\ consumed' = consumed + cost
          ELSE LET needed == cost - b.tokens
                   wait == needed \div b.refill_rate
               IN /\ bucket' = [b EXCEPT !.tokens = 0]
                  /\ thr' = [thr EXCEPT ![t].last_wait_needed = wait,
                                        ![t].first_wait =
                                            IF @ = -1 THEN wait ELSE @,
                                        ![t].now = 0,
                                        ![t].stale = stale,
                                        ![t].pc = "check"]
                  /\ consumed' = consumed
    /\ UNCHANGED <<clock, exact, pvars, ex, call>>

\* a critical section that lets a caller that has already slept return with
\* whatever tokens it finds
ConsumeLocked_waiter_takes_rest(t) ==
    /\ thr[t].pc = "lock"
    /\ LET b == refill_locked(bucket, thr[t].now)
           cost == thr[t].cost
           stale == thr[t].stale \/ thr[t].now < bucket.last_refill
           taken == Min(cost, b.tokens)
       IN IF b.tokens >= cost \/ thr[t].sleeps > 0
          THEN /\ bucket' = [b EXCEPT !.tokens = b.tokens - taken]
               /\ thr' = [thr EXCEPT ![t].pc = "done", ![t].now = 0,
                                     ![t].deadline = 0, ![t].stale = stale]
               /\ consumed' = consumed + taken
          ELSE LET needed == cost - b.tokens
                   wait == needed \div b.refill_rate
               IN /\ bucket' = b
                  /\ thr' = [thr EXCEPT ![t].last_wait_needed = wait,
                                        ![t].first_wait =
                                            IF @ = -1 THEN wait ELSE @,
                                        ![t].now = 0,
                                        ![t].stale = stale,
                                        ![t].pc = "check"]
                  /\ consumed' = consumed
    /\ UNCHANGED <<clock, exact, pvars, ex, call>>

\* consume, lines 52-58: the critical section
ConsumeLocked(t) ==
    /\ thr[t].pc = "lock"
    /\ LET b == refill_locked(bucket, thr[t].now)
           cost == thr[t].cost
           stale == thr[t].stale \/ thr[t].now < bucket.last_refill
       IN IF b.tokens >= cost
          THEN /\ bucket' = [b EXCEPT !.tokens = b.tokens - cost]
               /\ thr' = [thr EXCEPT ![t].pc = "done", ![t].now = 0,
                                     ![t].deadline = 0, ![t].stale = stale]
               /\ consumed' = consumed + cost
          ELSE LET needed == cost - b.tokens
                   wait == needed \div b.refill_rate
               IN /\ bucket' = b
                  /\ thr' = [thr EXCEPT ![t].last_wait_needed = wait,
                                        ![t].first_wait =
                                            IF @ = -1 THEN wait ELSE @,
                                        ![t].now = 0,
                                        ![t].stale = stale,
                                        ![t].pc = "check"]
                  /\ consumed' = consumed
    /\ UNCHANGED <<clock, exact, pvars, ex, call>>

\* a sleep that ignores the time remaining to the deadline
sleep_for_uncapped(last_wait_needed, remaining) == last_wait_needed

\* a sleep of one tick at a time, to look again
sleep_for_one_tick(last_wait_needed, remaining) == Min(1, remaining)

\* consume, line 63: sleep_for = min(last_wait_needed, remaining)
sleep_for_of(last_wait_needed, remaining) == Min(last_wait_needed, remaining)

\* consume, lines 60-64: raise at the deadline, else call the sleeper
ConsumeCheck(t) ==
    /\ thr[t].pc = "check"
    /\ LET remaining == thr[t].deadline - clock
           lwn == thr[t].last_wait_needed
       IN IF remaining <= 0 \/ lwn <= 0
          THEN thr' = [thr EXCEPT ![t].pc = "failed",
                          ![t].last_wait_needed = 0, ![t].deadline = 0,
                          ![t].err = LocalRateLimitError(thr[t].cost, lwn,
                                                         thr[t].max_wait)]
          ELSE LET sleep_for == sleep_for_of(lwn, remaining)
               IN thr' = [thr EXCEPT ![t].pc = "sleeping",
                              ![t].last_wait_needed = 0,
                              ![t].sleep_for = sleep_for,
                              ![t].wake_at = clock + sleep_for,
                              ![t].sleeps = @ + 1,
                              ![t].slept = @ + sleep_for]
    /\ UNCHANGED <<bucket, clock, consumed, exact, pvars, ex, call>>

\* a consume that takes a new deadline after every sleep
ConsumeWake_new_deadline(t) ==
    /\ thr[t].pc = "sleeping"
    /\ clock >= thr[t].wake_at
    /\ thr' = [thr EXCEPT ![t].waited = @ + thr[t].sleep_for,
                          ![t].sleep_for = 0, ![t].wake_at = 0,
                          ![t].deadline = clock + thr[t].max_wait,
                          ![t].pc = "read_now"]
    /\ UNCHANGED <<bucket, clock, consumed, exact, pvars, ex, call>>

\* consume, lines 64-65: the sleeper returns once the clock has advanced by
\* the requested duration; waited += sleep_for
ConsumeWake(t) ==
    /\ thr[t].pc = "sleeping"
    /\ clock >= thr[t].wake_at
    /\ thr' = [thr EXCEPT ![t].waited = @ + thr[t].sleep_for,
                          ![t].sleep_for = 0, ![t].wake_at = 0,
                          ![t].pc = "read_now"]
    /\ UNCHANGED <<bucket, clock, consumed, exact, pvars, ex, call>>

SomeoneSleeping ==
    \E t \in Threads : thr[t].pc = "sleeping" /\ thr[t].wake_at > clock

\* the clock: non-decreasing; every sleeper sees it reach its wake-up time
Tick ==
    /\ clock < MaxClock \/ SomeoneSleeping
    /\ clock' = clock + 1
    /\ exact' = (exact /\ SomeoneSleeping)
    /\ UNCHANGED <<bucket, thr, consumed, pvars, ex, call>>

ThreadStep(t) ==
    \/ ConsumeReadNow(t)
    \/ ConsumeLocked(t)
    \/ ConsumeCheck(t)
    \/ ConsumeWake(t)

BNext ==
    \/ \E t \in Threads : \E cost \in Costs(bucket) : \E mw \in MaxWaits :
          ConsumeEnter(t, cost, mw)
    \/ \E t \in Threads : ThreadStep(t)
    \/ Tick

----------------------------------------------------------------------------
(* The paginators.  One run of one paginator against one server.  The     *)
(* server answers each fetch with a page chosen freely from the pages it   *)
(* can send, or replays a fixed script of pages.  Items are named by the   *)
(* fetch that brought them and their place in the page.                    *)

\* a server with no end is followed for MaxFetches fetches
MaxFetches == 3
\* a server with an end holds up to MaxItems items
MaxItems == 3

Paginators == {"gql_worklogs", "boards", "sprints", "versions", "rest_worklogs"}

\* page_size > 0 of the explored runs
PageSizes == {1, 2}

\* the three pages of the pagination tests, at the default page_size of 50
ScriptSizes == <<50, 50, 7>>

\* Python's None, among the strings
NoneVal == "<None>"

\* the strings passed as cloud_id, issue_key, sprint_id, project_key_or_id
IdArgs == {NoneVal, "", "  ", "x1", " x1 "}

\* str.strip on those strings
Strip(s) ==
    CASE s = "  " -> ""
      [] s = " x1 " -> "x1"
      [] s = " sec " -> "sec"
      [] OTHER -> s

\* (value or "").strip()
Clean(s) == IF s = NoneVal THEN "" ELSE Strip(s)

\* the cursor strings a server draws from
Cursors == {"c1", "c2"}

\* what a server puts in pageInfo.endCursor and in edges[].cursor
CursorVals == Cursors \cup {NoneVal, ""}
EdgeCursorVals == Cursors \cup {NoneVal}

\* isLast: absent or not a bool, true, false
IsLastVals == {"None", "True", "False"}

\* total: absent or not an int, or an int (negative ones included)
NoTotal == [present |-> FALSE, value |-> 0]
TotalVals == {NoTotal} \cup {[present |-> TRUE, value |-> v] : v \in (0 - 1)..(MaxItems + 1)}

Max(a, b) == IF a >= b THEN a ELSE b

\* Python truthiness of an Optional[str]
Truthy(c) == c \notin {NoneVal, ""}

\* board_id: None or an integer
BoardIds == {[present |-> FALSE, value |-> 0]} \cup {[present |-> TRUE, value |-> v] : v \in {-1, 0, 10}}

\* state: None or a string
StateArgs == {NoneVal, "active", " Active ", "invalid", ""}

\* state.strip().lower()
CleanState(state) == IF state = " Active " THEN "active" ELSE state

\* the arguments of a paginator besides page_size; a paginator reads only
\* those it takes
DefaultArgs ==
    [board_id |-> [present |-> TRUE, value |-> 10], state |-> NoneVal,
     cloud_id |-> "x1", issue_key |-> "x1", project_key_or_id |-> "x1"]

PagArgs(kind) ==
    CASE kind = "sprints" ->
            {[DefaultArgs EXCEPT !.board_id = b, !.state = st] :
                b \in BoardIds, st \in StateArgs}
      [] kind = "gql_worklogs" ->
            {[DefaultArgs EXCEPT !.cloud_id = c, !.issue_key = k] :
                c \in IdArgs, k \in IdArgs}
      [] kind = "rest_worklogs" ->
            {[DefaultArgs EXCEPT !.issue_key = k] : k \in IdArgs}
      [] kind = "versions" ->
            {[DefaultArgs EXCEPT !.project_key_or_id = k] : k \in IdArgs}
      [] OTHER -> {DefaultArgs}

\* page_size of the runs that explore the arguments
ArgPageSizes == {-1, 0, 1}

\* the builtin ValueError
ValueError(message) == [type |-> "ValueError", message |-> message]

\* errors.py: SerializationError, GraphQLOperationError
NoErr == [type |-> "", message |-> ""]
SerializationError(message) == [type |-> "SerializationError", message |-> message]
GraphQLOperationError == [type |-> "GraphQLOperationError", message |-> "errors"]

\* a decoded page, as the paginators read it: page.values / page.worklogs /
\* conn.edges (n items; for a connection the cursors of its edges), page.is_last,
\* page.total, conn.page_info; data and errors are those of the GraphQL result
NoPage ==
    [data |-> "nopage", errors |-> FALSE, n |-> 0, is_last |-> "None",
     total |-> NoTotal, has_next_page |-> FALSE, end_cursor |-> NoneVal,
     edges |-> <<>>]

RestPage(n, is_last, total) ==
    [NoPage EXCEPT !.data = "ok", !.n = n, !.is_last = is_last, !.total = total]

GqlPage(errors, has_next_page, end_cursor, edges) ==
    [NoPage EXCEPT !.data = "ok", !.errors = errors, !.n = Len(edges),
                   !.has_next_page = has_next_page, !.end_cursor = end_cursor,
                   !.edges = edges]

\* the fields each REST page type carries
IsLastOf(kind) == IF kind = "rest_worklogs" THEN {"None"} ELSE IsLastVals
TotalOf(kind) == IF kind \in {"versions", "rest_worklogs"} THEN TotalVals ELSE {NoTotal}

\* the pages a REST server can answer with: any flags, `counts` items, or a
\* payload the page type rejects
RestPages(kind, counts) ==
    {RestPage(n, il, t) : n \in counts, il \in IsLastOf(kind), t \in TotalOf(kind)}
    \cup {[NoPage EXCEPT !.data = "malformed"]}

EdgeSeqs(maxn) == UNION {[1..n -> EdgeCursorVals] : n \in 0..maxn}

\* the results a GraphQL server can answer with: a connection, no data, or
\* data the generated parser rejects; each with or without errors
GqlPages(maxn) ==
    {GqlPage(e, h, c, es) : e \in BOOLEAN, h \in BOOLEAN, c \in CursorVals,
                            es \in EdgeSeqs(maxn)}
    \cup {[NoPage EXCEPT !.data = d, !.errors = e] :
             d \in {"missing", "malformed"}, e \in BOOLEAN}

\* the locals of a run at its first fetch, and the ghosts: the cursors sent so
\* far, the number of pages handled to the end of the loop body, whether
\* every page before the last handled one was a continuation page, and how
\* the last handled one read
NewRunWith(kind, page_size, args) ==
    [kind |-> kind, page_size |-> page_size, args |-> args, pc |-> "created",
     after |-> NoneVal, seen_after |-> {}, start_at |-> 0, seen_start_at |-> {},
     page |-> NoPage, idx |-> 0, fetches |-> 0, err |-> NoErr,
     sent |-> {}, handled |-> 0,
     regular |-> TRUE, last |-> "none", last_empty_more |-> FALSE]

NewRun(kind, page_size) == NewRunWith(kind, page_size, DefaultArgs)

NoRun == [NewRun("boards", 1) EXCEPT !.pc = "none"]

\* the server: whether it has an end and how many items it then holds, the
\* script it replays, and the two flags of the generated worklogs module
NoServer ==
    [finite |-> TRUE, items |-> 0, scripted |-> FALSE, script |-> <<>>,
     PAGEINFO_HAS_END_CURSOR |-> TRUE, WORKLOGS_EDGE_HAS_CURSOR |-> TRUE]

\* the scripted pages: full, full, short; continuation, continuation, completion
ScriptOf(kind) ==
    IF kind = "gql_worklogs"
    THEN << GqlPage(FALSE, TRUE, "c1", [i \in 1..ScriptSizes[1] |-> NoneVal]),
            GqlPage(FALSE, TRUE, "c2", [i \in 1..ScriptSizes[2] |-> NoneVal]),
            GqlPage(FALSE, FALSE, NoneVal, [i \in 1..ScriptSizes[3] |-> NoneVal]) >>
    ELSE << RestPage(ScriptSizes[1], "False", NoTotal),
            RestPage(ScriptSizes[2], "False", NoTotal),
            RestPage(ScriptSizes[3], "True", NoTotal) >>

\* the generated PageInfo.from_dict and JiraWorklogEdge.from_dict: endCursor and
\* the edge cursors are read only when the schema has them
parse_issue_worklogs_page(page, s) ==
    [page EXCEPT
        !.end_cursor = IF s.PAGEINFO_HAS_END_CURSOR THEN @ ELSE NoneVal,
        !.edges = [i \in DOMAIN @ |->
                      IF s.WORKLOGS_EDGE_HAS_CURSOR THEN @[i] ELSE NoneVal]]

\* the last truthy cursor of the edges: `for cursor in reversed(edges_cursors)`
LastTruthy(edges_cursors) ==
    LET idxs == {i \in DOMAIN edges_cursors : Truthy(edges_cursors[i])} IN
    IF idxs = {} THEN NoneVal
    ELSE edges_cursors[CHOOSE i \in idxs : \A j \in idxs : j <= i]

\* _next_after_from_pageinfo that looks at the edges before pageInfo
next_after_from_pageinfo_edges_first(has_next_page, end_cursor, edge_has_cursor, edges_cursors, pageinfo_has_end_cursor) ==
    IF ~has_next_page
    THEN [raised |-> FALSE, value |-> NoneVal]
    ELSE IF edge_has_cursor /\ Truthy(LastTruthy(edges_cursors))
    THEN [raised |-> FALSE, value |-> LastTruthy(edges_cursors)]
    ELSE IF pageinfo_has_end_cursor /\ Truthy(end_cursor)
    THEN [raised |-> FALSE, value |-> end_cursor]
    ELSE [raised |-> TRUE, value |-> NoneVal]

\* _next_after_from_pageinfo: None when there is no next page, the cursor to
\* go on with, or SerializationError("Pagination cursor missing")
next_after_from_pageinfo(has_next_page, end_cursor, edge_has_cursor, edges_cursors, pageinfo_has_end_cursor) ==
    IF ~has_next_page
    THEN [raised |-> FALSE, value |-> NoneVal]
    ELSE IF pageinfo_has_end_cursor /\ Truthy(end_cursor)
    THEN [raised |-> FALSE, value |-> end_cursor]
    ELSE IF edge_has_cursor /\ Truthy(LastTruthy(edges_cursors))
    THEN [raised |-> FALSE, value |-> LastTruthy(edges_cursors)]
    ELSE [raised |-> TRUE, value |-> NoneVal]

NextAfterOf(p, s) ==
    next_after_from_pageinfo(p.page.has_next_page, p.page.end_cursor,
                             s.WORKLOGS_EDGE_HAS_CURSOR, p.page.edges,
                             s.PAGEINFO_HAS_END_CURSOR)

Stop(p) == [p EXCEPT !.pc = "done"]
Fail(p, e) == [p EXCEPT !.pc = "failed", !.err = e]
Advance(p) == [p EXCEPT !.pc = "fetching", !.start_at = @ + p.page.n]

\* iter_issue_worklogs_via_graphql that goes on with a cursor it has used
gql_after_edges_unchecked(p, s) ==
    LET next_after == NextAfterOf(p, s) IN
    IF next_after.raised
    THEN Fail(p, SerializationError("Pagination cursor missing"))
    ELSE IF next_after.value = NoneVal
    THEN Stop(p)
    ELSE [p EXCEPT !.pc = "fetching",
                   !.seen_after = @ \cup {next_after.value},
                   !.after = next_after.value]

\* iter_issue_worklogs_via_graphql that does not record the cursors it takes
gql_after_edges_unrecorded(p, s) ==
    LET next_after == NextAfterOf(p, s) IN
    IF next_after.raised
    THEN Fail(p, SerializationError("Pagination cursor missing"))
    ELSE IF next_after.value = NoneVal
    THEN Stop(p)
    ELSE IF next_after.value \in p.seen_after
    THEN Fail(p, SerializationError("Pagination cursor repeated"))
    ELSE [p EXCEPT !.pc = "fetching", !.after = next_after.value]

\* iter_issue_worklogs_via_graphql that compares the next cursor with the
\* current one only
gql_after_edges_last_only(p, s) ==
    LET next_after == NextAfterOf(p, s) IN
    IF next_after.raised
    THEN Fail(p, SerializationError("Pagination cursor missing"))
    ELSE IF next_after.value = NoneVal
    THEN Stop(p)
    ELSE IF next_after.value = p.after
    THEN Fail(p, SerializationError("Pagination cursor repeated"))
    ELSE [p EXCEPT !.pc = "fetching",
                   !.seen_after = @ \cup {next_after.value},
                   !.after = next_after.value]

\* iter_issue_worklogs_via_graphql, lines 121-133, after the edges are yielded
gql_after_edges(p, s) ==
    LET next_after == NextAfterOf(p, s) IN
    IF next_after.raised
    THEN Fail(p, SerializationError("Pagination cursor missing"))
    ELSE IF next_after.value = NoneVal
    THEN Stop(p)
    ELSE IF next_after.value \in p.seen_after
    THEN Fail(p, SerializationError("Pagination cursor repeated"))
    ELSE [p EXCEPT !.pc = "fetching",
                   !.seen_after = @ \cup {next_after.value},
                   !.after = next_after.value]

\* iter_boards_via_rest that does not look at isLast
boards_after_values_no_is_last(p) ==
    IF p.page.n < p.page_size THEN Stop(p)
    ELSE IF p.page.n = 0 THEN Stop(p)
    ELSE Advance(p)

\* iter_boards_via_rest, lines 40-50, after the values are yielded
boards_after_values(p) ==
    LET has_is_last == p.page.is_last # "None" IN
    IF has_is_last /\ p.page.is_last = "True" THEN Stop(p)
    ELSE IF p.page.n < p.page_size THEN Stop(p)
    ELSE IF p.page.n = 0 THEN Stop(p)
    ELSE Advance(p)

\* iter_board_sprints_via_rest with the empty-page test ahead of the
\* short-page break
sprints_after_values_empty_first(p) ==
    LET has_is_last == p.page.is_last # "None" IN
    IF has_is_last /\ p.page.is_last = "True" THEN Stop(p)
    ELSE IF p.page.n = 0
    THEN IF has_is_last /\ p.page.is_last # "True"
         THEN Fail(p, SerializationError("Received empty page with isLast=false"))
         ELSE Stop(p)
    ELSE IF p.page.n < p.page_size THEN Stop(p)
    ELSE Advance(p)

\* iter_board_sprints_via_rest, lines 67-80
sprints_after_values(p) ==
    LET has_is_last == p.page.is_last # "None" IN
    IF has_is_last /\ p.page.is_last = "True" THEN Stop(p)
    ELSE IF p.page.n < p.page_size THEN Stop(p)
    ELSE IF p.page.n = 0
    THEN IF has_is_last /\ p.page.is_last # "True"
         THEN Fail(p, SerializationError("Received empty page with isLast=false"))
         ELSE Stop(p)
    ELSE Advance(p)

\* iter_versions_via_rest that stops on a short page whether or not a total
\* is declared
versions_after_values_short_page_first(p) ==
    LET has_is_last == p.page.is_last # "None"
        has_total == p.page.total.present /\ p.page.total.value >= 0
    IN
    IF has_is_last /\ p.page.is_last = "True" THEN Stop(p)
    ELSE IF p.page.n < p.page_size THEN Stop(p)
    ELSE IF has_total /\ p.start_at + p.page.n >= p.page.total.value THEN Stop(p)
    ELSE IF p.page.n = 0 THEN Stop(p)
    ELSE Advance(p)

\* iter_versions_via_rest, lines 44-62
versions_after_values(p) ==
    LET has_is_last == p.page.is_last # "None"
        has_total == p.page.total.present /\ p.page.total.value >= 0
    IN
    IF has_is_last /\ p.page.is_last = "True" THEN Stop(p)
    ELSE IF has_total /\ p.start_at + p.page.n >= p.page.total.value THEN Stop(p)
    ELSE IF ~has_total /\ p.page.n < p.page_size THEN Stop(p)
    ELSE IF p.page.n = 0
    THEN IF has_is_last /\ p.page.is_last # "True"
         THEN Fail(p, SerializationError("Received empty page with isLast=false"))
         ELSE Stop(p)
    ELSE Advance(p)

\* iter_issue_worklogs_via_rest without the break on an empty page
rest_worklogs_after_values_no_empty_break(p) ==
    LET has_total == p.page.total.present /\ p.page.total.value >= 0 IN
    IF has_total /\ p.start_at + p.page.n >= p.page.total.value THEN Stop(p)
    ELSE IF ~has_total /\ p.page.n < p.page_size THEN Stop(p)
    ELSE Advance(p)

\* iter_issue_worklogs_via_rest, lines 45-55
rest_worklogs_after_values(p) ==
    LET has_total == p.page.total.present /\ p.page.total.value >= 0 IN
    IF has_total /\ p.start_at + p.page.n >= p.page.total.value THEN Stop(p)
    ELSE IF ~has_total /\ p.page.n < p.page_size THEN Stop(p)
    ELSE IF p.page.n = 0 THEN Stop(p)
    ELSE Advance(p)

\* what each paginator does once the items of a page are yielded
AfterItems(p, s) ==
    CASE p.kind = "gql_worklogs" -> gql_after_edges(p, s)
      [] p.kind = "boards" -> boards_after_values(p)
      [] p.kind = "sprints" -> sprints_after_values(p)
      [] p.kind = "versions" -> versions_after_values(p)
      [] p.kind = "rest_worklogs" -> rest_worklogs_after_values(p)

IsGql(p) == p.kind = "gql_worklogs"

\* ghost: how the page just handled read to the paginator: a continuation
\* page (more to come, at a position not used before), a page declaring
\* completion, or anything else
PageClass(p, s) ==
    IF IsGql(p)
    THEN IF ~p.page.has_next_page THEN "final"
         ELSE IF ~NextAfterOf(p, s).raised
                 /\ NextAfterOf(p, s).value \notin p.seen_after
         THEN "cont" ELSE "other"
    ELSE IF p.page.is_last = "True" THEN "final"
         ELSE IF /\ p.page.is_last = "False"
                 /\ p.page.n = p.page_size
                 /\ ~p.page.total.present
         THEN "cont" ELSE "other"

\* ghost: the page just handled was empty while the server said there is more
\* and gave no total
EmptyButMore(p) ==
    /\ p.page.n = 0
    /\ ~p.page.total.present
    /\ IF IsGql(p) THEN p.page.has_next_page ELSE p.page.is_last = "False"

\* what the server answers to the fetch the run is about to make
Responses(p, s) ==
    IF s.scripted
    THEN IF s.script = <<>> THEN {} ELSE {Head(s.script)}
    ELSE IF IsGql(p)
    THEN GqlPages(p.page_size)
    ELSE RestPages(p.kind,
                   0..Min(p.page_size + 1,
                          IF s.finite THEN Max(0, s.items - p.start_at)
                          ELSE p.page_size + 1))

\* the run once the response is in: client.execute / client.get_json returned,
\* then the checks and the decoding that precede the loop over the items
Received(p, s, resp) ==
    LET q == [p EXCEPT !.fetches = @ + 1,
                       !.sent = IF IsGql(p) THEN @ \cup {p.after} ELSE @,
                       !.seen_start_at = IF IsGql(p) THEN @ ELSE @ \cup {p.start_at}]
    IN
    IF resp.data = "missing"
    THEN Fail(q, IF IsGql(p) /\ resp.errors
                 THEN GraphQLOperationError
                 ELSE SerializationError("Missing GraphQL data in response"))
    ELSE IF resp.data = "malformed"
    THEN Fail(q, IF IsGql(p) /\ resp.errors
                 THEN GraphQLOperationError
                 ELSE SerializationError("Expected"))
    ELSE [q EXCEPT !.pc = "draining", !.idx = 0,
                   !.page = IF IsGql(p) THEN parse_issue_worklogs_page(resp, s)
                            ELSE resp]

\* a validation that looks at page_size only
ArgsErrorOf_page_size_only(p) ==
    IF p.page_size <= 0 THEN "page_size must be > 0" ELSE ""

\* the checks before the loop: jira_sprints.py 33-43, jira_boards.py 17-18,
\* jira_versions.py 18-22, rest jira_worklogs.py 19-23, graph jira_worklogs.py
\* 84-91; the message of the ValueError, "" when the arguments pass
ArgsErrorOf(p) ==
    CASE p.kind = "sprints" ->
            IF ~p.args.board_id.present \/ p.args.board_id.value <= 0
            THEN "board_id must be a positive integer"
            ELSE IF p.page_size <= 0 THEN "page_size must be > 0"
            ELSE IF p.args.state # NoneVal
                    /\ CleanState(p.args.state) \notin {"future", "active", "closed"}
            THEN "state must be one of: future, active, closed"
            ELSE ""
      [] p.kind = "gql_worklogs" ->
            IF Clean(p.args.cloud_id) = "" THEN "cloud_id is required"
            ELSE IF Clean(p.args.issue_key) = "" THEN "issue_key is required"
            ELSE IF p.page_size <= 0 THEN "page_size must be > 0"
            ELSE ""
      [] p.kind = "rest_worklogs" ->
            IF Clean(p.args.issue_key) = "" THEN "issue_key is required"
            ELSE IF p.page_size <= 0 THEN "page_size must be > 0"
            ELSE ""
      [] p.kind = "versions" ->
            IF Clean(p.args.project_key_or_id) = ""
            THEN "project_key_or_id is required"
            ELSE IF p.page_size <= 0 THEN "page_size must be > 0"
            ELSE ""
      [] OTHER ->
            IF p.page_size <= 0 THEN "page_size must be > 0" ELSE ""

\* the first next() of the generator: the body runs from its top, so the
\* arguments are checked now, before the loop
PagStart ==
    /\ pg.pc = "created"
    /\ pg' = IF ArgsErrorOf(pg) # ""
             THEN Fail(pg, ValueError(ArgsErrorOf(pg)))
             ELSE [pg EXCEPT !.pc = "fetching"]
    /\ UNCHANGED <<srv, yielded, served, bvars, ex, call>>

\* the head of the loop up to the first item: the REST paginators refuse a
\* startAt they have used, then one fetch is made and its response decoded
PagFetch ==
    /\ pg.pc = "fetching"
    /\ IF ~IsGql(pg) /\ pg.start_at \in pg.seen_start_at
       THEN /\ pg' = Fail(pg, SerializationError("Pagination startAt repeated"))
            /\ UNCHANGED <<srv, served>>
       ELSE /\ srv.finite \/ pg.fetches < MaxFetches
            /\ \E resp \in Responses(pg, srv) :
                  /\ pg' = Received(pg, srv, resp)
                  /\ served' = served \o [i \in 1..resp.n |-> <<pg.fetches + 1, i>>]
                  /\ srv' = IF srv.scripted
                            THEN [srv EXCEPT !.script = Tail(@)] ELSE srv
    /\ UNCHANGED <<yielded, bvars, ex, call>>

\* `for item in values: yield ...`: the next item of the page goes out
PagYield ==
    /\ pg.pc = "draining"
    /\ pg.idx < pg.page.n
    /\ yielded' = Append(yielded, <<pg.fetches, pg.idx + 1>>)
    /\ pg' = [pg EXCEPT !.idx = @ + 1]
    /\ UNCHANGED <<srv, served, bvars, ex, call>>

\* a loop body that takes its decision on the page before the items are out
PagDecide_before_items ==
    /\ pg.pc = "draining"
    /\ pg' = [AfterItems(pg, srv) EXCEPT
                 !.page = NoPage, !.idx = 0,
                 !.handled = pg.handled + 1,
                 !.regular = pg.regular /\ pg.last \in {"none", "cont"},
                 !.last = PageClass(pg, srv),
                 !.last_empty_more = EmptyButMore(pg)]
    /\ UNCHANGED <<srv, yielded, served, bvars, ex, call>>

\* the rest of the loop body, once every item of the page is out
PagDecide ==
    /\ pg.pc = "draining"
    /\ pg.idx = pg.page.n
    /\ pg' = [AfterItems(pg, srv) EXCEPT
                 !.page = NoPage, !.idx = 0,
                 !.handled = pg.handled + 1,
                 !.regular = pg.regular /\ pg.last \in {"none", "cont"},
                 !.last = PageClass(pg, srv),
                 !.last_empty_more = EmptyButMore(pg)]
    /\ UNCHANGED <<srv, yielded, served, bvars, ex, call>>

PagNext ==
    \/ PagStart
    \/ PagFetch
    \/ PagYield
    \/ PagDecide

\* the consumer stops pulling: the generator stays suspended where it is,
\* before its first step or at the yield of an item, and is never resumed
PagAbandon ==
    /\ \/ pg.pc = "created"
       \/ pg.pc = "draining" /\ pg.idx > 0
    /\ pg' = [pg EXCEPT !.pc = "closed"]
    /\ UNCHANGED <<srv, yielded, served, bvars, ex, call>>

\* a run whose consumer may stop at any item
PagLazyNext ==
    \/ PagNext
    \/ PagAbandon

\* the server of the runs that explore the arguments: one item
ArgsServer(kind) ==
    IF kind = "gql_worklogs" THEN NoServer ELSE [NoServer EXCEPT !.items = 1]

\* the servers of the free exploration: for the cursor paginator the four
\* builds of the generated module; for the offset paginators a server with no
\* end, or one holding 0..MaxItems items
FreeServers(kind) ==
    IF kind = "gql_worklogs"
    THEN {[NoServer EXCEPT !.PAGEINFO_HAS_END_CURSOR = a,
                           !.WORKLOGS_EDGE_HAS_CURSOR = b] :
             a \in BOOLEAN, b \in BOOLEAN}
    ELSE {[NoServer EXCEPT !.finite = FALSE]}
         \cup {[NoServer EXCEPT !.items = n] : n \in 0..MaxItems}

----------------------------------------------------------------------------
(* GraphQLClient.execute: one logical request and its 429 retry loop.  The  *)
(* client module is not part of the tree; the loop follows section 4.3 of   *)
(* the specification.  RateLimitError and parse_retry_after follow          *)
(* atlassian_graphql/errors.py and atlassian_graphql/retry.py.              *)

\* largest max_retries_429 a client is built with
MaxRetries == 2

\* the instants a Retry-After header names, and the waits a client allows;
\* instants are minutes from 2025-10-21T07:28:00Z
Instants == 0..2
ExecMaxWaits == {1, 2}

\* A Retry-After header as received, by what is written in it: nothing (the
\* header is missing), the empty string, blanks only, a number of seconds,
\* other text, or a day of October 2025, an hour, a minute and a zone written
\* as an RFC 3339 timestamp ("2025-10-21T07:28:00Z") or as an HTTP-date
\* ("Tue, 21 Oct 2025 07:28:00 GMT", with the day of the week the sender
\* wrote); pad: blanks around the text.
HeaderText(format, wday, day, hour, minute, tz, pad) ==
    [format |-> format, wday |-> wday, day |-> day, hour |-> hour,
     minute |-> minute, tz |-> tz, pad |-> pad]

NoHeader == HeaderText("missing", "", 0, 0, 0, "", FALSE)

\* the date written for an instant, in UTC, one way or the other
StampOf(format, i) ==
    IF format = "rfc3339"
    THEN HeaderText("rfc3339", "", 21, 7, 28 + i, "Z", FALSE)
    ELSE HeaderText("http-date", "Tue", 21, 7, 28 + i, "GMT", FALSE)

\* the headers the server of an execute call sends with a 429
RetryAfterHeaders ==
    {NoHeader, HeaderText("empty", "", 0, 0, 0, "", FALSE),
     HeaderText("garbage", "", 0, 0, 0, "", FALSE)}
    \cup {StampOf(f, i) : f \in {"rfc3339", "http-date"}, i \in Instants}

\* the zones written in a timestamp and in an HTTP-date; "" and "-0000" give
\* a datetime with no tzinfo
Rfc3339Zones == {"Z", "+00:00", "+02:00", "-07:00", ""}
HttpDateZones == {"GMT", "+0000", "+0200", "-0700", "-0000"}

\* minutes east of UTC
UtcOffset(tz) ==
    CASE tz \in {"+02:00", "+0200"} -> 120
      [] tz \in {"-07:00", "-0700"} -> 0 - 420
      [] OTHER -> 0

\* parsed.astimezone(timezone.utc), after tzinfo=timezone.utc for a datetime
\* with none: the instant of the written date
UtcInstant(h) ==
    ((h.day - 21) * 24 + (h.hour - 7)) * 60 + (h.minute - 28) - UtcOffset(h.tz)

NoInstant == [known |-> FALSE, at |-> 0]

\* parse_retry_after that takes any text for the instant 0
parse_retry_after_lenient(header_value) ==
    IF header_value.format \in {"missing", "empty", "blank"}
    THEN [raised |-> TRUE, value |-> NoInstant, format |-> ""]
    ELSE IF header_value.format \in {"rfc3339", "http-date"}
    THEN [raised |-> FALSE, value |-> [known |-> TRUE, at |-> UtcInstant(header_value)],
          format |-> header_value.format]
    ELSE [raised |-> FALSE, value |-> [known |-> TRUE, at |-> 0], format |-> "http-date"]

\* parse_retry_after without the HTTP-date fallback
parse_retry_after_rfc3339_only(header_value) ==
    IF header_value.format = "rfc3339"
    THEN [raised |-> FALSE, value |-> [known |-> TRUE, at |-> UtcInstant(header_value)],
          format |-> "rfc3339"]
    ELSE [raised |-> TRUE, value |-> NoInstant, format |-> ""]

\* parse_retry_after that drops the zone of the written date
parse_retry_after_zone_dropped(header_value) ==
    IF header_value.format \in {"rfc3339", "http-date"}
    THEN [raised |-> FALSE,
          value |-> [known |-> TRUE,
                     at |-> UtcInstant([header_value EXCEPT !.tz = "Z"])],
          format |-> header_value.format]
    ELSE [raised |-> TRUE, value |-> NoInstant, format |-> ""]

\* str.strip: the blanks around the text go; a blank text becomes empty
StripText(text) ==
    IF text.format = "blank"
    THEN [text EXCEPT !.format = "empty", !.pad = FALSE]
    ELSE [text EXCEPT !.pad = FALSE]

\* lines 15-17: a trailing Z is rewritten as +00:00
ZAsOffset(text) == IF text.tz = "Z" THEN [text EXCEPT !.tz = "+00:00"] ELSE text

NotParsed == [ok |-> FALSE, naive |-> FALSE, wall |-> 0, offset |-> 0]

\* minutes of the written date and time, counted from 21 October 07:28
WallClock(text) ==
    ((text.day - 21) * 24 + (text.hour - 7)) * 60 + (text.minute - 28)

\* datetime.fromisoformat: a timestamp with a numeric offset or with none,
\* no blanks around it; a Z is refused by the older interpreters
fromisoformat(text) ==
    IF text.format = "rfc3339" /\ ~text.pad /\ text.tz \in Rfc3339Zones \ {"Z"}
    THEN [ok |-> TRUE, naive |-> text.tz = "", wall |-> WallClock(text),
          offset |-> UtcOffset(text.tz)]
    ELSE NotParsed

\* email.utils.parsedate_to_datetime: an HTTP-date; the day of the week is
\* skipped, not compared with the date; -0000 gives no tzinfo
parsedate_to_datetime(text) ==
    IF text.format = "http-date" /\ text.tz \in HttpDateZones
    THEN [ok |-> TRUE, naive |-> text.tz = "-0000", wall |-> WallClock(text),
          offset |-> UtcOffset(text.tz)]
    ELSE NotParsed

\* lines 20-22 and 28-30: tzinfo=timezone.utc for a datetime with none, then
\* astimezone(timezone.utc)
AsUtc(parsed) ==
    [known |-> TRUE,
     at |-> IF parsed.naive THEN parsed.wall ELSE parsed.wall - parsed.offset]

\* retry.py: parse_retry_after: ValueError for a missing header and for one
\* that is empty once stripped; datetime.fromisoformat is tried first (a
\* trailing Z rewritten as +00:00), then parsedate_to_datetime; ValueError when
\* both refuse the text; else the instant in UTC and the form that parsed
parse_retry_after(header_value) ==
    IF header_value.format = "missing"
    THEN [raised |-> TRUE, value |-> NoInstant, format |-> ""]
    ELSE LET candidate == StripText(header_value)
             cleaned == ZAsOffset(candidate)
         IN IF candidate.format = "empty"
            THEN [raised |-> TRUE, value |-> NoInstant, format |-> ""]
            ELSE IF fromisoformat(cleaned).ok
            THEN [raised |-> FALSE, value |-> AsUtc(fromisoformat(cleaned)),
                  format |-> "rfc3339"]
            ELSE IF parsedate_to_datetime(candidate).ok
            THEN [raised |-> FALSE,
                  value |-> AsUtc(parsedate_to_datetime(candidate)),
                  format |-> "http-date"]
            ELSE [raised |-> TRUE, value |-> NoInstant, format |-> ""]

NoWait == [known |-> FALSE, seconds |-> 0]
Wait(seconds) == [known |-> TRUE, seconds |-> seconds]

\* RateLimitError that does not keep the raw header
RateLimitError_without_header(retry_after, attempts, header_value, wait_seconds, max_wait_seconds) ==
    [type |-> "RateLimitError", retry_after |-> retry_after, attempts |-> attempts,
     header_value |-> NoHeader, wait_seconds |-> wait_seconds,
     max_wait_seconds |-> max_wait_seconds]

\* errors.py: RateLimitError.__init__
RateLimitError(retry_after, attempts, header_value, wait_seconds, max_wait_seconds) ==
    [type |-> "RateLimitError", retry_after |-> retry_after, attempts |-> attempts,
     header_value |-> header_value, wait_seconds |-> wait_seconds,
     max_wait_seconds |-> max_wait_seconds]

OtherError(type) ==
    [type |-> type, retry_after |-> NoInstant, attempts |-> 0,
     header_value |-> NoHeader, wait_seconds |-> NoWait, max_wait_seconds |-> 0]

\* one execute call: the client's settings, the attempt counter, and what the
\* last 429 response carried; ghosts: the requests sent, the warnings logged,
\* what the attempts met in order, and what the call returned
NewCall(max_retries_429, max_wait_seconds) ==
    [pc |-> "attempt", max_retries_429 |-> max_retries_429,
     max_wait_seconds |-> max_wait_seconds, now |-> 0, attempts |-> 0,
     header_value |-> NoHeader, retry_after |-> NoInstant, wait_seconds |-> NoWait,
     requests |-> 0, warnings |-> 0, last_status |-> 0, err |-> OtherError(""),
     met |-> <<>>, result |-> "none"]

NoCall == [NewCall(0, 1) EXCEPT !.pc = "none"]

\* what an attempt meets: the auth provider fails, the bucket refuses, or a
\* response comes back: a 429 with its Retry-After header, another failure
\* status, or a 200 whose body has data, data and errors, errors only, or
\* neither
NoResponse(what) == [what |-> what, status |-> 0, header |-> NoHeader, body |-> "none"]
Response(status, header, body) ==
    [what |-> "response", status |-> status, header |-> header, body |-> body]

Outcomes ==
    {NoResponse("auth_failure"), NoResponse("bucket_refusal")}
    \cup {Response(500, NoHeader, "none")}
    \cup {Response(200, NoHeader, b) :
             b \in {"data", "data_and_errors", "errors", "neither"}}
    \cup {Response(429, h, "none") : h \in RetryAfterHeaders}

\* step 4: the 429 is logged, Retry-After parsed and the wait computed; the
\* call goes to sleep if attempts remain and the wait is allowed, else fails
On429(x, header) ==
    LET parsed == parse_retry_after(header)
        wait == Max(0, parsed.value.at - x.now)
        y == [x EXCEPT !.warnings = @ + 1, !.header_value = header,
                       !.retry_after = parsed.value,
                       !.wait_seconds = IF parsed.raised THEN NoWait ELSE Wait(wait)]
    IN
    IF parsed.raised
    THEN [y EXCEPT !.pc = "failed",
             !.err = RateLimitError(NoInstant, y.attempts, header, NoWait,
                                    y.max_wait_seconds)]
    ELSE IF y.attempts > y.max_retries_429 \/ wait > y.max_wait_seconds
    THEN [y EXCEPT !.pc = "failed",
             !.err = RateLimitError(parsed.value, y.attempts, header, Wait(wait),
                                    y.max_wait_seconds)]
    ELSE [y EXCEPT !.pc = "sleeping"]

\* step 6: the body of a success response: errors without data is an
\* operation error, neither data nor errors a serialization error, else the
\* result is returned with what it carries
On200(x, body) ==
    CASE body = "errors" ->
            [x EXCEPT !.pc = "failed", !.err = OtherError("GraphQLOperationError")]
      [] body = "neither" ->
            [x EXCEPT !.pc = "failed", !.err = OtherError("SerializationError")]
      [] OTHER -> [x EXCEPT !.pc = "done", !.result = body]

\* steps 1-6 of one attempt: auth, the local budget, the request, the status
ExecAttempt ==
    /\ ex.pc = "attempt"
    /\ \E o \in Outcomes :
          LET m == [ex EXCEPT !.met = Append(@, o)] IN
          ex' = IF o.what = "auth_failure"
                THEN [m EXCEPT !.pc = "failed", !.last_status = 0,
                               !.err = OtherError("AuthError")]
                ELSE IF o.what = "bucket_refusal"
                THEN [m EXCEPT !.pc = "failed", !.last_status = 0,
                               !.err = OtherError("LocalRateLimitError")]
                ELSE LET x == [m EXCEPT !.attempts = @ + 1, !.requests = @ + 1,
                                        !.last_status = o.status]
                     IN CASE o.status = 429 -> On429(x, o.header)
                          [] o.status = 200 -> On200(x, o.body)
                          [] OTHER -> [x EXCEPT !.pc = "failed",
                                                !.err = OtherError("TransportError")]
    /\ UNCHANGED <<bvars, pvars, call>>

\* the sleep before the next attempt: the clock reaches the retry instant
ExecSleep ==
    /\ ex.pc = "sleeping"
    /\ ex' = [ex EXCEPT !.pc = "attempt", !.now = @ + ex.wait_seconds.seconds]
    /\ UNCHANGED <<bvars, pvars, call>>

ExecNext ==
    \/ ExecAttempt
    \/ ExecSleep

----------------------------------------------------------------------------
(* The single-result accessors get_issue_by_key and get_sprint_by_id        *)
(* (python/atlassian/graph/api/jira_issues.py, jira_sprints.py): one call,  *)
(* one execute, then the decoding of the result.                            *)

Accessors == {"get_issue_by_key", "get_sprint_by_id"}

\* models.py: GraphQLResult: data is null, decodes, or does not decode; errors
\* is null, an empty list, or a list with items
GraphQLResults ==
    {[data |-> d, errors |-> e] :
        d \in {"null", "ok", "malformed"}, e \in {"null", "empty", "some"}}

NoResult == [data |-> "null", errors |-> "null"]

\* `if result.errors`
HasErrors(res) == res.errors = "some"

\* the exceptions an accessor lets out; errors.py: GraphQLOperationError keeps
\* the errors and the partial data it is given
NoRaise == [type |-> "", errors |-> "null", partial_data |-> "null"]
Raise(type) == [type |-> type, errors |-> "null", partial_data |-> "null"]
OperationError(errors, partial_data) ==
    [type |-> "GraphQLOperationError", errors |-> errors, partial_data |-> partial_data]

NewAccess(op, cloud_id, id) ==
    [op |-> op, cloud_id |-> cloud_id, id |-> id, pc |-> "called",
     requests |-> 0, response |-> NoResult, result |-> NoResult,
     returned |-> "none", err |-> NoRaise]

\* lines 64-69 (issue) and 63-65 (sprint): the arguments are cleaned and
\* required
ArgsError(c) ==
    IF c.op = "get_issue_by_key" /\ Clean(c.cloud_id) = ""
    THEN "cloud_id is required"
    ELSE IF Clean(c.id) = ""
    THEN IF c.op = "get_issue_by_key" THEN "issue_key is required"
         ELSE "sprint_id is required"
    ELSE ""

\* what client.execute does with a decoded body (section 4.3, step 6): errors
\* without data raise the operation error, neither data nor errors is a
\* serialization error, anything else is returned as the result
Executed(c, res) ==
    LET d == [c EXCEPT !.requests = @ + 1, !.response = res] IN
    IF res.data = "null" /\ HasErrors(res)
    THEN [d EXCEPT !.pc = "raised", !.err = OperationError(res.errors, "null")]
    ELSE IF res.data = "null"
    THEN [d EXCEPT !.pc = "raised", !.err = Raise("SerializationError")]
    ELSE [d EXCEPT !.pc = "executed", !.result = res]

\* get_issue_by_key lines 77-87, get_sprint_by_id lines 73-83: no data is a
\* SerializationError; a parse failure is the operation error when the result
\* has errors, else itself; a result that parses is mapped and returned
AfterExecute(c) ==
    IF c.result.data = "null"
    THEN [c EXCEPT !.pc = "raised", !.err = Raise("SerializationError")]
    ELSE IF c.result.data = "malformed"
    THEN IF HasErrors(c.result)
         THEN [c EXCEPT !.pc = "raised",
                        !.err = OperationError(c.result.errors, c.result.data)]
         ELSE [c EXCEPT !.pc = "raised", !.err = Raise("SerializationError")]
    ELSE [c EXCEPT !.pc = "returned", !.returned = "mapped"]

\* the call up to the return of client.execute: ValueError before any
\* request, else one request, which fails in transport or brings a body
AccCall ==
    /\ call.op \in Accessors
    /\ call.pc = "called"
    /\ IF ArgsError(call) # ""
       THEN call' = [call EXCEPT !.pc = "raised", !.err = Raise("ValueError")]
       ELSE \/ call' = [call EXCEPT !.pc = "raised", !.requests = @ + 1,
                                    !.err = Raise("TransportError")]
            \/ \E res \in GraphQLResults : call' = Executed(call, res)
    /\ UNCHANGED <<bvars, pvars, ex>>

\* the rest of the accessor
AccFinish ==
    /\ call.op \in Accessors
    /\ call.pc = "executed"
    /\ call' = AfterExecute(call)
    /\ UNCHANGED <<bvars, pvars, ex>>

AccNext ==
    \/ AccCall
    \/ AccFinish

----------------------------------------------------------------------------
(* fetch_issue_by_key and _auth_from_env                                    *)
(* (python/atlassian/graph/api/jira_issues.py): the credentials are chosen  *)
(* from the environment, then the client is created.                        *)

\* the values of the ATLASSIAN_* environment variables; NoneVal is unset
TokenVals == {NoneVal, "", "tok", "sec", " sec "}
SecretVals == {NoneVal, "sec", "other"}
CookiesJsonVals == {NoneVal, "{not json", "{\"a\": \"b\"}", "[1]"}

Environments ==
    [token : TokenVals, refresh_token : {NoneVal, "r"},
     client_id : {NoneVal, "id"}, client_secret : SecretVals,
     email : {NoneVal, "e"}, api_token : {NoneVal, "t"},
     cookies_json : CookiesJsonVals, base_url : {NoneVal, "https://gql"}]

\* json.loads of the cookie strings: JSONDecodeError, a dict of strings, or
\* something that is not a dict
JsonLoads(s) ==
    CASE s = "{not json" -> "JSONDecodeError"
      [] s = "{\"a\": \"b\"}" -> "dict_of_str"
      [] OTHER -> "not_a_dict"

\* _auth_from_env lines 21-54: refresh token with client id and secret wins;
\* then the access token, refused when it equals the client secret after
\* stripping; then email with API token; then cookies; else None
auth_from_env(env) ==
    IF Truthy(env.refresh_token) /\ Truthy(env.client_id)
          /\ Truthy(env.client_secret)
    THEN [raised |-> FALSE, auth |-> "OAuthRefreshTokenAuth"]
    ELSE IF Truthy(env.token)
    THEN IF Truthy(env.client_secret)
               /\ Strip(env.token) = Strip(env.client_secret)
         THEN [raised |-> TRUE, auth |-> "None"]
         ELSE [raised |-> FALSE, auth |-> "OAuthBearerAuth"]
    ELSE IF Truthy(env.email) /\ Truthy(env.api_token)
    THEN [raised |-> FALSE, auth |-> "BasicApiTokenAuth"]
    ELSE IF Truthy(env.cookies_json)
               /\ JsonLoads(env.cookies_json) = "dict_of_str"
    THEN [raised |-> FALSE, auth |-> "CookieAuth"]
    ELSE [raised |-> FALSE, auth |-> "None"]

NewFetch(env) ==
    [op |-> "fetch_issue_by_key", env |-> env, pc |-> "called",
     auth |-> "None", base_url |-> NoneVal, clients |-> 0, err |-> NoRaise]

\* fetch_issue_by_key lines 92-93
FetchAuth ==
    /\ call.op = "fetch_issue_by_key"
    /\ call.pc = "called"
    /\ LET a == auth_from_env(call.env) IN
       call' = IF a.raised
               THEN [call EXCEPT !.pc = "raised", !.err = Raise("ValueError")]
               ELSE [call EXCEPT !.pc = "authed", !.auth = a.auth]
    /\ UNCHANGED <<bvars, pvars, ex>>

\* fetch_issue_by_key lines 94-107: the default base URL for OAuth, the
\* check for a base URL and credentials, then the client
FetchClient ==
    /\ call.op = "fetch_issue_by_key"
    /\ call.pc = "authed"
    /\ LET base_url ==
               IF ~Truthy(call.env.base_url)
                     /\ (Truthy(call.env.token) \/ Truthy(call.env.refresh_token))
               THEN "https://api.atlassian.com"
               ELSE call.env.base_url
       IN  call' = IF ~Truthy(base_url) \/ call.auth = "None"
                   THEN [call EXCEPT !.pc = "raised", !.err = Raise("ValueError")]
                   ELSE [call EXCEPT !.pc = "client", !.base_url = base_url,
                                     !.clients = @ + 1]
    /\ UNCHANGED <<bvars, pvars, ex>>

FetchNext ==
    \/ FetchAuth
    \/ FetchClient

----------------------------------------------------------------------------
(* sanitize_headers (python/atlassian_graphql/logging.py), applied to two   *)
(* header maps side by side.                                                *)

HeaderNames == {"Authorization", "authorization", "COOKIE", "Set-Cookie", "X-Trace"}
HeaderValues == {"v1", "v2"}

\* the header maps: a dict from some of the names to values
HeaderMaps == UNION {[names -> HeaderValues] : names \in SUBSET HeaderNames}

\* str.lower on the header names
Lower(name) ==
    CASE name \in {"Authorization", "authorization"} -> "authorization"
      [] name = "COOKIE" -> "cookie"
      [] name = "Set-Cookie" -> "set-cookie"
      [] name = "X-Trace" -> "x-trace"
      [] OTHER -> name

\* line 12
sensitive == {"authorization", "cookie"}

\* sanitize_headers that compares the key as it is written
sanitize_headers_case_sensitive(headers) ==
    [key \in DOMAIN headers |->
        IF key \in sensitive THEN "<redacted>" ELSE headers[key]]

\* sanitize_headers, lines 11-19
sanitize_headers(headers) ==
    [key \in DOMAIN headers |->
        IF Lower(key) \in sensitive THEN "<redacted>" ELSE headers[key]]

NewSanitize(headers, other) ==
    [op |-> "sanitize_headers", pc |-> "called", headers |-> headers,
     other |-> other, sanitized |-> <<>>, other_sanitized |-> <<>>]

\* both maps are sanitized
Sanitize ==
    /\ call.op = "sanitize_headers"
    /\ call.pc = "called"
    /\ call' = [call EXCEPT !.pc = "returned",
                            !.sanitized = sanitize_headers(call.headers),
                            !.other_sanitized = sanitize_headers(call.other)]
    /\ UNCHANGED <<bvars, pvars, ex>>

SanitizeNext == Sanitize

----------------------------------------------------------------------------
(* parse_retry_after (python/atlassian_graphql/retry.py), applied to two    *)
(* header texts side by side.                                               *)

\* the texts: none, "", "   ", "soon", "120", and dates of 21 October 2025
\* written as a timestamp or as an HTTP-date, in several zones, with the
\* right day of the week, a wrong one or none, with or without blanks around
RetryAfterTexts ==
    {HeaderText(f, "", 0, 0, 0, "", FALSE) :
        f \in {"missing", "empty", "blank", "garbage", "delta-seconds"}}
    \cup {HeaderText("rfc3339", "", 21, hour, minute, tz, pad) :
            hour \in {7, 9}, minute \in {28, 29}, tz \in Rfc3339Zones,
            pad \in BOOLEAN}
    \cup {HeaderText("http-date", wday, 21, hour, minute, tz, pad) :
            wday \in {"Tue", "Wed", ""}, hour \in {7, 9}, minute \in {28, 29},
            tz \in HttpDateZones, pad \in BOOLEAN}

NotCalled == [raised |-> FALSE, value |-> NoInstant, format |-> ""]

NewParse(header_value, other) ==
    [op |-> "parse_retry_after", pc |-> "called", header_value |-> header_value,
     other |-> other, result |-> NotCalled, other_result |-> NotCalled]

\* both texts are parsed
Parse ==
    /\ call.op = "parse_retry_after"
    /\ call.pc = "called"
    /\ call' = [call EXCEPT !.pc = "returned",
                            !.result = parse_retry_after(call.header_value),
                            !.other_result = parse_retry_after(call.other)]
    /\ UNCHANGED <<bvars, pvars, ex>>

ParseNext == Parse

----------------------------------------------------------------------------
(* The specifications. *)

\* Each specification exercises one component; the others stay as constructed.
BucketUnused ==
    /\ clock = 0
    /\ bucket = TokenBucketInit([capacity |-> 10, refill_rate |-> 1], 0)
    /\ consumed = 0
    /\ thr = [t \in Threads |-> IdleThread]
    /\ exact = TRUE

ExecUnused == ex = NoCall

CallUnused == call = [op |-> "none"]

PagUnused ==
    /\ pg = NoRun
    /\ srv = NoServer
    /\ yielded = <<>>
    /\ served = <<>>

PagInit ==
    /\ BucketUnused
    /\ ExecUnused
    /\ CallUnused
    /\ yielded = <<>>
    /\ served = <<>>
    /\ \E kind \in Paginators :
          \/ \E page_size \in PageSizes : \E s \in FreeServers(kind) :
                /\ pg = NewRun(kind, page_size)
                /\ srv = s
          \/ /\ pg = NewRun(kind, ScriptSizes[1])
             /\ srv = [NoServer EXCEPT !.scripted = TRUE, !.script = ScriptOf(kind)]
          \/ \E page_size \in ArgPageSizes : \E args \in PagArgs(kind) :
                /\ pg = NewRunWith(kind, page_size, args)
                /\ srv = ArgsServer(kind)

ExecInit ==
    /\ BucketUnused
    /\ PagUnused
    /\ CallUnused
    /\ \E max_retries_429 \in 0..MaxRetries : \E max_wait_seconds \in ExecMaxWaits :
          ex = NewCall(max_retries_429, max_wait_seconds)

Init == BInit /\ PagUnused /\ ExecUnused /\ CallUnused

Next == BNext

Spec == Init /\ [][Next]_vars

\* The threads are scheduled, the lock is granted and time passes.
FairSpec ==
    /\ Init /\ [][Next]_vars
    /\ \A t \in Threads : WF_vars(ThreadStep(t))
    /\ WF_vars(Tick)

PagSpec == PagInit /\ [][PagNext]_vars

\* The consumer keeps asking for the next item and the server keeps answering.
PagLazySpec == PagInit /\ [][PagLazyNext]_vars

PagFairSpec == PagInit /\ [][PagNext]_vars /\ WF_vars(PagNext)

ExecSpec == ExecInit /\ [][ExecNext]_vars

AccInit ==
    /\ BucketUnused
    /\ PagUnused
    /\ ExecUnused
    /\ \/ \E cloud_id \in IdArgs : \E issue_key \in IdArgs :
             call = NewAccess("get_issue_by_key", cloud_id, issue_key)
       \/ \E sprint_id \in IdArgs :
             call = NewAccess("get_sprint_by_id", NoneVal, sprint_id)

AccSpec == AccInit /\ [][AccNext]_vars

FetchInit ==
    /\ BucketUnused
    /\ PagUnused
    /\ ExecUnused
    /\ \E env \in Environments : call = NewFetch(env)

FetchSpec == FetchInit /\ [][FetchNext]_vars

SanitizeInit ==
    /\ BucketUnused
    /\ PagUnused
    /\ ExecUnused
    /\ \E headers \in HeaderMaps : \E other \in HeaderMaps :
          call = NewSanitize(headers, other)

SanitizeSpec == SanitizeInit /\ [][SanitizeNext]_vars

ParseInit ==
    /\ BucketUnused
    /\ PagUnused
    /\ ExecUnused
    /\ \E header_value \in RetryAfterTexts : \E other \in RetryAfterTexts :
          call = NewParse(header_value, other)

ParseSpec == ParseInit /\ [][ParseNext]_vars

----------------------------------------------------------------------------
(* TokenBucket: the claims *)

Finished(t) == thr[t].pc \in {"done", "failed"}
Running(t) == thr[t].pc \in {"read_now", "lock", "check", "sleeping"}

\* C1: in every reachable state, whatever the costs, the max waits and the
\* interleaving of the callers, 0 <= tokens <= capacity.
C1_TokensInRange ==
    /\ 0 <= bucket.tokens
    /\ bucket.tokens <= bucket.capacity

\* a caller returned after sleeping, another took tokens, and the refill
\* has been clamped at the capacity or the bucket emptied
C1_Witness ==
    \E t \in Threads : \E u \in Threads \ {t} :
        /\ thr[t].pc = "done" /\ thr[t].waited > 0
        /\ thr[u].pc = "done" /\ thr[u].cost > 0
        /\ bucket.tokens = 0

\* C6: the costs of the calls that succeeded sum to at most capacity plus
\* refill_rate times the clock time elapsed since construction (time 0); no
\* interval is credited twice: what was taken plus what is left is covered by
\* the capacity and the refill up to the last refill timestamp, which is never
\* ahead of the clock.
C6_NoDoubleCredit ==
    /\ consumed <= bucket.capacity + bucket.refill_rate * clock
    /\ consumed + bucket.tokens
          <= bucket.capacity + bucket.refill_rate * bucket.last_refill
    /\ bucket.last_refill <= clock

\* a caller went through the critical section with a clock reading older than
\* the last refill timestamp, and both callers got their tokens
C6_Witness ==
    \E t \in Threads : \E u \in Threads \ {t} :
        /\ thr[t].stale /\ thr[t].pc = "done" /\ thr[t].cost > 0
        /\ thr[u].pc = "done" /\ thr[u].cost > 0
        /\ bucket.last_refill > 0

\* C7 (as the specification states it): capacity 10, 5 tokens/s (1 per tick),
\* a full bucket, one caller and a clock moved by the sleeper only:
\* consume(12) with max_wait >= 0.4 s (2 ticks) ends by returning 0.4 s, and
\* with max_wait < 0.4 s by raising LocalRateLimitError.
C7_Claim ==
    \A t \in Threads :
        ( /\ bucket.capacity = 10 /\ bucket.refill_rate = 1
          /\ thr[t].cost = 12 /\ thr[t].first_wait = 2
          /\ exact
          /\ \A u \in Threads \ {t} : thr[u].pc = "idle"
          /\ Finished(t) )
        => IF thr[t].max_wait >= 2
           THEN thr[t].pc = "done" /\ thr[t].waited = 2
           ELSE thr[t].pc = "failed" /\ thr[t].err.raised

\* C8 (as the specification states it): a call whose wait needed at entry
\* exceeds max_wait_seconds raises without ever calling the sleeper.
C8_Claim ==
    \A t \in Threads :
        (thr[t].first_wait > thr[t].max_wait)
        => thr[t].sleeps = 0 /\ thr[t].pc # "done"

\* C9, the loop never spins: a caller that sleeps sleeps a strictly positive
\* duration which ends no later than its deadline.
NoSpin ==
    \A t \in Threads :
        thr[t].pc = "sleeping"
        => /\ thr[t].sleep_for > 0
           /\ thr[t].wake_at <= thr[t].deadline

\* C9: every consume call, under every interleaving with the other caller,
\* ends by returning or by raising, given that the sleeper returns once the
\* clock has advanced by the requested duration; and it never spins.
C9_Terminates ==
    /\ []NoSpin
    /\ \A t \in Threads : Running(t) ~> Finished(t)

\* a call ended after going round the loop more than once
C9_Witness ==
    \E t \in Threads : Finished(t) /\ thr[t].sleeps >= 2

----------------------------------------------------------------------------
(* The paginators: the claims *)

PagTerminated == pg.pc \in {"done", "failed"}

IsPrefix(s, t) == Len(s) <= Len(t) /\ \A i \in 1..Len(s) : s[i] = t[i]

SumOf(sizes) == sizes[1] + sizes[2] + sizes[3]

FetchBound ==
    IF IsGql(pg) /\ ~srv.scripted THEN Cardinality(Cursors) + 1
    ELSE IF srv.scripted THEN Len(ScriptOf(pg.kind))
    ELSE srv.items + 1

C3_FailsOnRepeatedCursor ==
    /\ [](IsGql(pg) /\ ~srv.scripted => pg.fetches <= Cardinality(Cursors) + 1)
    /\ [](IsGql(pg) /\ pg.pc = "fetching" => pg.after \notin pg.sent)
    /\ [][ ( /\ IsGql(pg) /\ pg.pc = "draining" /\ pg.idx = pg.page.n
             /\ ~NextAfterOf(pg, srv).raised
             /\ Truthy(NextAfterOf(pg, srv).value)
             /\ NextAfterOf(pg, srv).value \in pg.sent
             /\ pg' # pg )
           => ( /\ pg'.pc = "failed"
                /\ pg'.err = SerializationError("Pagination cursor repeated")
                /\ pg'.fetches = pg.fetches ) ]_vars

\* a cursor run used both cursors and failed when the third page named one
\* of them again
C3_Witness ==
    /\ IsGql(pg)
    /\ pg.pc = "failed"
    /\ pg.err = SerializationError("Pagination cursor repeated")
    /\ pg.fetches = Cardinality(Cursors) + 1
    /\ pg.sent = Cursors \cup {NoneVal}

\* C4 (as the specification states it): once the sprints, the boards or the
\* GraphQL worklogs paginator has handled an empty page on which the server
\* said there is more, with no total, the run has failed with
\* SerializationError.
C4_Claim ==
    (pg.kind \in {"sprints", "boards", "gql_worklogs"} /\ pg.last_empty_more)
    => (pg.pc = "failed" /\ pg.err.type = "SerializationError")

\* the paginators that read a completion flag
FlagPaginators == {"gql_worklogs", "boards", "sprints", "versions"}

\* C5: while every page so far signalled continuation the run goes on to
\* the next fetch; when the page after them declares completion, full or
\* not, the run ends normally having yielded exactly the items of the pages
\* fetched, in server order, and fetches no more; the items go out in server
\* order throughout; the scripted pages of sizes [50, 50, 7] give 107 items
\* in 3 fetches.
C5_DrainsInOrder ==
    /\ IsPrefix(yielded, served)
    /\ (pg.kind \in FlagPaginators /\ pg.regular /\ pg.handled = pg.fetches)
       => /\ pg.last = "cont"
             => (pg.pc = "fetching" /\ (IsGql(pg) \/ pg.start_at \notin pg.seen_start_at))
          /\ pg.last = "final"
             => (pg.pc = "done" /\ pg.err = NoErr /\ yielded = served)
    /\ (srv.scripted /\ pg.kind \in FlagPaginators /\ PagTerminated)
       => /\ pg.pc = "done"
          /\ pg.fetches = Len(ScriptSizes)
          /\ Len(yielded) = SumOf(ScriptSizes)
          /\ yielded = served

\* the scripted run of a flag-reading paginator is over: three fetches, 107
\* items
C5_Witness ==
    /\ srv.scripted /\ pg.kind \in FlagPaginators
    /\ pg.pc = "done" /\ pg.regular /\ pg.last = "final"
    /\ pg.fetches = 3
    /\ Len(yielded) = 107

----------------------------------------------------------------------------
(* execute: the claims *)

\* C10: one execute call sends at most max_retries_429 + 1 requests and logs
\* at most max_retries_429 + 1 rate-limit warnings, however early the instants
\* the Retry-After headers name; a call that fails on a 429 with a header that
\* parses fails with a RateLimitError carrying the parsed instant, the number
\* of attempts made, the header as received and the computed wait.
C10_RetryCap ==
    /\ ex.requests <= ex.max_retries_429 + 1
    /\ ex.warnings <= ex.max_retries_429 + 1
    /\ (ex.pc = "failed" /\ ex.last_status = 429 /\ ex.retry_after.known)
       => /\ ex.err.type = "RateLimitError"
          /\ ex.err.retry_after = parse_retry_after(ex.header_value).value
          /\ ex.err.attempts = ex.requests
          /\ ex.err.header_value = ex.header_value
          /\ ex.err.wait_seconds = ex.wait_seconds
    /\ (ex.pc = "failed" /\ ex.requests = ex.max_retries_429 + 1 /\ ex.last_status = 429)
       => ex.err.type = "RateLimitError"

\* the cap was reached after two retries on headers naming instants already
\* past: three requests, three warnings, nothing waited
C10_Witness ==
    /\ ex.pc = "failed"
    /\ ex.max_retries_429 = 2
    /\ ex.requests = 3
    /\ ex.warnings = 3
    /\ ex.now = 0
    /\ ex.header_value.format = "http-date"
    /\ ex.err.type = "RateLimitError"

\* a failure other than a parseable 429: the auth provider or the bucket
\* refused, a Retry-After that is not a date, another failure status, errors
\* without data, neither data nor errors
TerminalFailure(o) ==
    \/ o.what \in {"auth_failure", "bucket_refusal"}
    \/ o.status = 429 /\ o.header.format \notin {"rfc3339", "http-date"}
    \/ o.what = "response" /\ o.status \notin {200, 429}
    \/ o.status = 200 /\ o.body \in {"errors", "neither"}

ErrorFor(o) ==
    CASE o.what = "auth_failure" -> "AuthError"
      [] o.what = "bucket_refusal" -> "LocalRateLimitError"
      [] o.status = 429 -> "RateLimitError"
      [] o.status = 200 /\ o.body = "errors" -> "GraphQLOperationError"
      [] o.status = 200 /\ o.body = "neither" -> "SerializationError"
      [] OTHER -> "TransportError"

Sent(met) == {i \in 1..Len(met) : met[i].what = "response"}

\* C11: within one execute call every attempt but the last met a 429, so
\* only a 429 is followed by another send; a failure of any other kind is the
\* last thing the call meets: the call has failed with the error of that
\* kind, and the requests sent are those that got a response.
C11_OnlyA429IsRetried ==
    /\ \A i \in 1..Len(ex.met) :
          /\ i < Len(ex.met) => ex.met[i].status = 429
          /\ TerminalFailure(ex.met[i])
             => /\ i = Len(ex.met)
                /\ ex.pc = "failed"
                /\ ex.err.type = ErrorFor(ex.met[i])
    /\ ex.requests = Cardinality(Sent(ex.met))

\* a call retried after a 429 and then failed, with no third request, on a
\* Retry-After that is no date
C11_Witness ==
    /\ Len(ex.met) = 2
    /\ ex.met[1].status = 429
    /\ ex.met[2].status = 429 /\ ex.met[2].header.format = "garbage"
    /\ ex.max_retries_429 = 2
    /\ ex.pc = "failed" /\ ex.requests = 2

\* C12: a call whose first response is a 429 and whose second is a success
\* with data has returned that data after exactly one rate-limit warning and
\* two requests; a first 429 whose Retry-After is a date within the allowed
\* wait is retried when retries are allowed; a call that met a 429 on each of
\* its max_retries_429 + 1 attempts has failed with RateLimitError.
C12_RetryThenSuccess ==
    /\ ( /\ Len(ex.met) = 2
         /\ ex.met[1].status = 429
         /\ ex.met[2].status = 200 /\ ex.met[2].body = "data" )
       => /\ ex.pc = "done" /\ ex.result = "data"
          /\ ex.warnings = 1 /\ ex.requests = 2
    /\ ( /\ Len(ex.met) = 1
         /\ ex.met[1].status = 429
         /\ ex.met[1].header.format \in {"rfc3339", "http-date"}
         /\ UtcInstant(ex.met[1].header) <= ex.max_wait_seconds
         /\ ex.max_retries_429 >= 1 )
       => ex.pc \in {"sleeping", "attempt"}
    /\ ( /\ Len(ex.met) = ex.max_retries_429 + 1
         /\ \A i \in 1..Len(ex.met) : ex.met[i].status = 429 )
       => /\ ex.pc = "failed"
          /\ ex.err.type = "RateLimitError"
          /\ ex.warnings = ex.max_retries_429 + 1

\* a 429 with an HTTP-date, slept through, then a success with data
C12_Witness ==
    /\ Len(ex.met) = 2
    /\ ex.met[1].status = 429 /\ ex.met[1].header.format = "http-date"
    /\ ex.met[2].status = 200 /\ ex.met[2].body = "data"
    /\ ex.now > 0
    /\ ex.pc = "done" /\ ex.warnings = 1

----------------------------------------------------------------------------
(* The accessors and the helpers: the claims *)

\* C13 (as the specification states it): once an accessor call is over, a
\* response that had a non-empty errors list has surfaced as an error; when
\* it also had data, as a GraphQLOperationError carrying that data; never as
\* a normal result.
C13_Claim ==
    (call.op \in Accessors /\ call.pc \in {"returned", "raised"}
        /\ call.requests > 0 /\ HasErrors(call.response))
    => /\ call.pc = "raised"
       /\ call.response.data # "null"
          => /\ call.err.type = "GraphQLOperationError"
             /\ call.err.partial_data = call.response.data

\* C14 (as the specification states it): whenever the configured access
\* token is identical to the configured client secret, building the
\* credentials ends in ValueError and no client is created, whatever the
\* other credential settings are.
C14_Claim ==
    (call.op = "fetch_issue_by_key" /\ call.pc \in {"raised", "client"}
        /\ Truthy(call.env.token) /\ call.env.token = call.env.client_secret)
    => /\ call.pc = "raised"
       /\ call.err.type = "ValueError"
       /\ call.clients = 0

\* the step that makes a call of cost 0, and a call of cost 0 once made
C15_ZeroCostStep ==
    \A t \in Threads :
        (thr[t].pc = "idle" /\ thr'[t].pc # "idle" /\ thr'[t].cost = 0)
        => /\ thr'[t].pc = "done"
           /\ bucket' = bucket
           /\ clock' = clock

C15_ZeroCostState ==
    \A t \in Threads :
        (thr[t].pc # "idle" /\ thr[t].cost = 0)
        => /\ thr[t].pc = "done"
           /\ thr[t].waited = 0
           /\ thr[t].sleeps = 0
           /\ ~thr[t].err.raised

\* C15: consume with cost 0 returns at once with a wait of 0: the step that
\* makes the call leaves the tokens and the last refill timestamp as they
\* were and ends the call, and a call of cost 0 has never slept, never
\* waited and never raised, whatever the bucket held and whatever
\* max_wait_seconds was.
C15_ZeroCostNoOp == [](C15_ZeroCostState) /\ [][C15_ZeroCostStep]_vars

\* a call of cost 0 has returned on an empty bucket while the other caller
\* is still waiting for tokens
C15_Witness ==
    /\ thr["t2"].pc = "done" /\ thr["t2"].cost = 0
    /\ bucket.tokens < 2
    /\ thr["t1"].pc \in {"sleeping", "check"}

\* the names that spell Authorization or Cookie in some letter case
SensitiveNames == {"Authorization", "authorization", "COOKIE"}

\* two maps that differ at most in the values of the sensitive headers
SameButSensitive(h1, h2) ==
    /\ DOMAIN h1 = DOMAIN h2
    /\ \A k \in DOMAIN h1 \ SensitiveNames : h1[k] = h2[k]

\* C16: sanitize_headers keeps the header names, puts '<redacted>' for every
\* header named Authorization or Cookie in any letter case and keeps every
\* other value; two maps that differ only in the values of those headers
\* sanitize to the same output.
C16_Redacts ==
    (call.op = "sanitize_headers" /\ call.pc = "returned")
    => /\ DOMAIN call.sanitized = DOMAIN call.headers
       /\ \A k \in DOMAIN call.headers :
             call.sanitized[k] =
                 IF k \in SensitiveNames THEN "<redacted>" ELSE call.headers[k]
       /\ SameButSensitive(call.headers, call.other)
             => call.sanitized = call.other_sanitized

\* two maps with all the header names that differ in every sensitive value
\* and in nothing else have been sanitized
C16_Witness ==
    /\ call.op = "sanitize_headers" /\ call.pc = "returned"
    /\ DOMAIN call.headers = HeaderNames
    /\ SameButSensitive(call.headers, call.other)
    /\ \A k \in SensitiveNames : call.headers[k] # call.other[k]
    /\ call.sanitized["Set-Cookie"] = "v2"

\* the zone of an HTTP-date written the way a timestamp writes it
ZoneAsRfc3339(tz) ==
    CASE tz = "GMT" -> {"Z", "+00:00"}
      [] tz = "+0000" -> {"Z", "+00:00"}
      [] tz = "+0200" -> {"+02:00"}
      [] tz = "-0700" -> {"-07:00"}
      [] OTHER -> {}

\* an HTTP-date and a timestamp that write the same moment
SameMoment(h, r) ==
    /\ h.format = "http-date" /\ r.format = "rfc3339"
    /\ h.day = r.day /\ h.hour = r.hour /\ h.minute = r.minute
    /\ r.tz \in ZoneAsRfc3339(h.tz)

\* 09:28 at two hours east of Greenwich is 07:28 GMT
TwoHoursEast(h, r) ==
    /\ h.format = "http-date" /\ r.format = "rfc3339"
    /\ h.tz \in {"GMT", "+0000"} /\ r.tz = "+02:00"
    /\ h.day = r.day /\ h.hour = 7 /\ r.hour = 9 /\ h.minute = r.minute

\* C17: parse_retry_after gives the HTTP-date form and the RFC 3339 form of
\* one moment the same UTC instant, also when the two are written in
\* different zones; a timestamp is reported as parsed by the first attempt
\* ("rfc3339"), an HTTP-date by the second ("http-date"); a header that is
\* missing, blank or neither of the two forms raises ValueError.
C17_SameInstant ==
    (call.op = "parse_retry_after" /\ call.pc = "returned")
    => LET h == call.header_value
           r == call.other
       IN /\ (SameMoment(h, r) \/ TwoHoursEast(h, r))
                => /\ ~call.result.raised /\ ~call.other_result.raised
                   /\ call.result.value.known
                   /\ call.result.value = call.other_result.value
          /\ h.format = "rfc3339"
                => ~call.result.raised /\ call.result.format = "rfc3339"
          /\ h.format = "http-date"
                => ~call.result.raised /\ call.result.format = "http-date"
          /\ h.format \notin {"rfc3339", "http-date"}
                => call.result.raised /\ ~call.result.value.known

\* 'Wed, 21 Oct 2025 07:28:00 GMT' and '2025-10-21T07:28:00Z' have been
\* parsed to one instant
C17_Witness ==
    /\ call.op = "parse_retry_after" /\ call.pc = "returned"
    /\ call.header_value = HeaderText("http-date", "Wed", 21, 7, 28, "GMT", FALSE)
    /\ call.other = HeaderText("rfc3339", "", 21, 7, 28, "Z", FALSE)
    /\ call.result.value = call.other_result.value
    /\ call.result.format = "http-date" /\ call.other_result.format = "rfc3339"

----------------------------------------------------------------------------
(* The paginators: arguments and stopping rules, the claims *)

\* the arguments the paginators are documented to refuse
BlankIds == {NoneVal, "", "  "}

InvalidArguments(p) ==
    \/ p.page_size <= 0
    \/ /\ p.kind = "sprints"
       /\ \/ ~p.args.board_id.present
          \/ p.args.board_id.value <= 0
          \/ p.args.state \in {"invalid", ""}
    \/ /\ p.kind = "gql_worklogs"
       /\ (p.args.cloud_id \in BlankIds \/ p.args.issue_key \in BlankIds)
    \/ /\ p.kind = "rest_worklogs"
       /\ p.args.issue_key \in BlankIds

C18_NothingSent ==
    (pg.pc # "none" /\ InvalidArguments(pg))
    => /\ pg.pc \in {"created", "failed"}
       /\ pg.fetches = 0
       /\ served = <<>>
       /\ yielded = <<>>
       /\ pg.pc = "failed" => pg.err.type = "ValueError"

C18_RaisesAtStart ==
    (pg.pc = "created" /\ InvalidArguments(pg) /\ pg' # pg)
    => (pg'.pc = "failed" /\ pg'.err.type = "ValueError" /\ pg'.fetches = 0)

\* C18: a paginator given page_size <= 0, or for sprints a board_id that is
\* None or <= 0 or a state outside future, active, closed, or for worklogs a
\* blank issue key or cloud id, raises ValueError at the first step of the
\* iteration and never sends a request or yields an item.
C18_InvalidArguments == [](C18_NothingSent) /\ [][C18_RaisesAtStart]_vars

\* the sprints paginator has refused the state "invalid" with every other
\* argument in order
C18_Witness ==
    /\ pg.kind = "sprints" /\ pg.pc = "failed"
    /\ pg.err = ValueError("state must be one of: future, active, closed")
    /\ pg.page_size = 1 /\ pg.args.board_id.value = 10
    /\ pg.args.state = "invalid"
    /\ pg.fetches = 0

\* the loop body has yielded every item of the page and is about to decide
Deciding == pg.pc = "draining" /\ pg.idx = pg.page.n /\ pg' # pg

\* C19 (as the specification states it): when the sprints, the boards or the
\* versions paginator has handled a page that says isLast=false, declares no
\* total and holds fewer items than page_size but at least one, it does not
\* stop: it goes on to fetch at the next offset.
C19_Claim ==
    [][ ( /\ pg.kind \in {"sprints", "boards", "versions"}
          /\ Deciding
          /\ pg.page.is_last = "False"
          /\ ~pg.page.total.present
          /\ 0 < pg.page.n /\ pg.page.n < pg.page_size )
        => ( /\ pg'.pc = "fetching"
             /\ pg'.start_at = pg.start_at + pg.page.n ) ]_vars

\* a declared total that counts: an integer >= 0
HasTotal(page) == page.total.present /\ page.total.value >= 0

\* C20: when a page declares a total >= 0 and not isLast=true, the versions
\* and the REST worklogs paginators stop exactly when start_at + len(items)
\* >= total, or on an empty page; the size of the page against page_size is
\* not looked at: a non-empty page below the total, short or not, is followed
\* by a fetch at start_at + len(items), which is the offset the next request
\* carries.
C20_TotalDecides ==
    [][ ( /\ pg.kind \in {"versions", "rest_worklogs"}
          /\ Deciding
          /\ HasTotal(pg.page)
          /\ pg.page.is_last # "True" )
        => ( /\ pg.start_at + pg.page.n >= pg.page.total.value
                => (pg'.pc = "done" /\ pg'.start_at = pg.start_at)
             /\ (pg.start_at + pg.page.n < pg.page.total.value /\ pg.page.n > 0)
                => /\ pg'.pc = "fetching"
                   /\ pg'.start_at = pg.start_at + pg.page.n
                   /\ pg'.start_at \notin pg'.seen_start_at
             /\ (pg.start_at + pg.page.n < pg.page.total.value /\ pg.page.n = 0)
                => pg'.pc \in {"done", "failed"} ) ]_vars

\* a run with page_size 2 received one item of a declared total of three or
\* more, went on, and has fetched again at offset 1
C20_Witness ==
    /\ pg.kind \in {"versions", "rest_worklogs"}
    /\ pg.page_size = 2
    /\ pg.fetches = 2 /\ pg.handled = 1
    /\ pg.start_at = 1 /\ pg.seen_start_at = {0, 1}
    /\ pg.pc = "draining"
    /\ HasTotal(pg.page) /\ pg.page.total.value >= 3
    /\ Len(served) >= 1 /\ served[1] = <<1, 1>> /\ Len(yielded) = 1

----------------------------------------------------------------------------
(* The paginators: positions, laziness and the cursor rule, the claims *)

\* the positions a run has sent so far: the `after` of each execute, the
\* startAt of each get_json (added to seen_start_at right before the request)
PositionsSent == IF IsGql(pg) THEN pg.sent ELSE pg.seen_start_at

\* the position the next fetch of the run carries
NextPosition == IF IsGql(pg) THEN pg.after ELSE pg.start_at

C21_FreshPosition ==
    (pg.pc = "fetching" /\ pg'.fetches = pg.fetches + 1)
    => /\ NextPosition \notin PositionsSent
       /\ PositionsSent' = PositionsSent \cup {NextPosition}

\* C21: in one run no two fetches carry the same position: every fetch is
\* made at a position not sent before, so the positions sent are as many as
\* the fetches made, whatever the server answers.
C21_DistinctPositions ==
    /\ [](pg.pc # "none" => Cardinality(PositionsSent) = pg.fetches)
    /\ [][C21_FreshPosition]_vars

\* a cursor run has fetched at None, c1 and c2 and has ended there
C21_Witness ==
    /\ IsGql(pg) /\ pg.pc = "done"
    /\ pg.fetches = 3
    /\ pg.sent = {NoneVal, "c1", "c2"}

\* the errors a paginator raises about the pagination itself
PaginationErrors ==
    {SerializationError("Pagination cursor missing"),
     SerializationError("Pagination cursor repeated"),
     SerializationError("Pagination startAt repeated"),
     SerializationError("Received empty page with isLast=false")}

\* a fetch, and the decision on a page, find every item served so far
\* delivered; a run that is over or abandoned changes nothing any more
C22_LazyStep ==
    /\ pg'.fetches # pg.fetches => (yielded = served /\ pg.pc = "fetching")
    /\ (pg.pc = "draining" /\ pg'.pc # "draining" /\ pg'.pc # "closed")
          => (yielded = served /\ yielded' = yielded)
    /\ pg.pc \in {"done", "failed", "closed"}
          => (pg' = pg /\ served' = served /\ yielded' = yielded)

C22_Delivered ==
    /\ IsPrefix(yielded, served)
    /\ pg.pc \in {"fetching", "done"} => yielded = served
    /\ (pg.pc = "failed" /\ pg.err \in PaginationErrors) => yielded = served
    /\ pg.pc = "draining" => Len(yielded) = Len(served) - (pg.page.n - pg.idx)

\* C22: the items come out in the order served, and all items of a page are
\* out before the decision on that page is taken and before the next page
\* is fetched; a run that fails with a pagination SerializationError has
\* delivered every item of every page it fetched; a run that is Done or
\* Failed, or whose consumer has stopped pulling, fetches nothing more.
C22_LazyAndOrdered == [](C22_Delivered) /\ [][C22_LazyStep]_vars

\* a run delivered the items of two pages and then failed on a pagination
\* error; nothing was left undelivered
C22_Witness ==
    /\ pg.pc = "failed" /\ pg.err \in PaginationErrors
    /\ pg.fetches = 2
    /\ Len(yielded) = 2 /\ yielded = served
    /\ yielded[1][1] = 1 /\ yielded[2][1] = 2

----------------------------------------------------------------------------
(* TokenBucket: errors, waits and contention, the claims *)

\* C23 (as the specification states it): every LocalRateLimitError raised by
\* consume carries the cost asked for and a wait_seconds strictly greater
\* than its max_wait_seconds, also when the call slept before failing.
C23_Claim ==
    \A t \in Threads :
        thr[t].pc = "failed"
        => /\ thr[t].err.raised
           /\ thr[t].err.estimated_cost = thr[t].cost
           /\ thr[t].err.max_wait_seconds = thr[t].max_wait
           /\ thr[t].err.wait_seconds > thr[t].err.max_wait_seconds

\* C24: in one consume call the durations handed to the sleeper sum to at
\* most max_wait_seconds, the sleeper returning once the clock has advanced
\* by the duration asked for; a call that returns returns that sum, which is
\* 0 when the tokens were there at the first look.
C24_SleepBudget ==
    \A t \in Threads :
        /\ thr[t].slept <= thr[t].max_wait
        /\ thr[t].waited <= thr[t].slept
        /\ thr[t].pc = "done"
              => /\ thr[t].waited = thr[t].slept
                 /\ thr[t].first_wait = -1 => (thr[t].waited = 0 /\ thr[t].sleeps = 0)

\* a call slept twice, used up its whole max_wait_seconds and returned it
C24_Witness ==
    \E t \in Threads :
        /\ thr[t].pc = "done" /\ thr[t].sleeps >= 2
        /\ thr[t].max_wait = 2 /\ thr[t].waited = 2

\* C25: in a REST run the startAt of the first fetch is 0 and the startAt of
\* every fetch is the number of items received so far, larger than every
\* startAt sent before; during a page, startAt plus the items of the page is
\* that number; so the error 'Pagination startAt repeated' is never raised,
\* whatever the server answers.
C25_OffsetsIncrease ==
    (~IsGql(pg) /\ pg.pc # "none")
    => /\ pg.err # SerializationError("Pagination startAt repeated")
       /\ pg.fetches > 0 => 0 \in pg.seen_start_at
       /\ \A a \in pg.seen_start_at : a <= pg.start_at
       /\ pg.pc = "fetching"
             => /\ pg.start_at = Len(served)
                /\ \A a \in pg.seen_start_at : a < pg.start_at
       /\ pg.pc = "draining" => pg.start_at + pg.page.n = Len(served)

\* a run with page_size 2 has fetched at 0, 2 and 3 and ended
C25_Witness ==
    /\ ~IsGql(pg) /\ pg.pc = "done"
    /\ pg.page_size = 2
    /\ pg.fetches = 3
    /\ pg.seen_start_at = {0, 2, 3}

\* C26: on every page the boards and the sprints paginators take the same
\* decision, which is to stop or to go on at start_at + len(items): applied
\* to the page a run of either is about to decide on, the two loop tails
\* give the same outcome, and the sprints paginator never raises its
\* 'empty page with isLast=false' error.
C26_SameDecision ==
    (pg.kind \in {"boards", "sprints"} /\ pg.pc # "none")
    => /\ pg.err # SerializationError("Received empty page with isLast=false")
       /\ (pg.pc = "draining" /\ pg.idx = pg.page.n)
             => /\ boards_after_values(pg) = sprints_after_values(pg)
                /\ \/ sprints_after_values(pg) = Stop(pg)
                   \/ /\ sprints_after_values(pg) = Advance(pg)
                      /\ pg.page.n > 0

\* the sprints paginator received a full page, then an empty page saying
\* isLast=false, and stopped as the boards paginator does
C26_Witness ==
    /\ pg.kind = "sprints" /\ pg.pc = "done"
    /\ pg.last_empty_more
    /\ pg.handled = 2 /\ Len(yielded) = pg.page_size

\* the run goes on with cursor c, or fails because c was used before
GoesOnWith(c) ==
    \/ /\ pg'.pc = "fetching" /\ pg'.after = c /\ c \notin pg.seen_after
    \/ /\ pg'.pc = "failed" /\ c \in pg.seen_after
       /\ pg'.err = SerializationError("Pagination cursor repeated")

\* c is the last non-empty cursor of the edges
LastNonEmpty(edges, c) ==
    \E i \in DOMAIN edges :
        /\ edges[i] = c /\ c \notin {NoneVal, ""}
        /\ \A j \in DOMAIN edges : j > i => edges[j] \in {NoneVal, ""}

\* C27: the cursor paginator, deciding on a page: with hasNextPage=false it
\* stops, whatever endCursor is; otherwise it takes pageInfo.endCursor when
\* that is non-empty, otherwise the last non-empty edge cursor; and with
\* hasNextPage=true and no such cursor it fails with SerializationError
\* (cursor missing) without another fetch.
C27_NextCursor ==
    [][ (IsGql(pg) /\ Deciding)
        => LET page == pg.page IN
           /\ ~page.has_next_page => pg'.pc = "done"
           /\ (page.has_next_page /\ page.end_cursor \notin {NoneVal, ""})
                 => GoesOnWith(page.end_cursor)
           /\ (page.has_next_page /\ page.end_cursor \in {NoneVal, ""})
                 => \/ \E c \in Cursors :
                          LastNonEmpty(page.edges, c) /\ GoesOnWith(c)
                    \/ /\ \A c \in Cursors : ~LastNonEmpty(page.edges, c)
                       /\ pg'.pc = "failed"
                       /\ pg'.err = SerializationError("Pagination cursor missing")
           /\ pg'.fetches = pg.fetches ]_vars

\* against a schema without pageInfo.endCursor a run went on with an edge
\* cursor and then failed for want of any cursor
C27_Witness ==
    /\ IsGql(pg) /\ ~srv.PAGEINFO_HAS_END_CURSOR
    /\ pg.pc = "failed"
    /\ pg.err = SerializationError("Pagination cursor missing")
    /\ pg.fetches = 2
    /\ pg.sent = {NoneVal, "c2"}

\* a step of a call that does not return: no tokens leave the bucket; the
\* step that raises touches nothing; tokens leave only by the cost of the
\* call that returns; the last refill timestamp never moves backward
C28_Step ==
    /\ bucket'.last_refill >= bucket.last_refill
    /\ bucket'.capacity = bucket.capacity
    /\ bucket'.tokens >= bucket.tokens - (consumed' - consumed)
    /\ \A t \in Threads :
          /\ (thr'[t] # thr[t] /\ thr'[t].pc # "done")
                => /\ consumed' = consumed
                   /\ bucket'.tokens >= bucket.tokens
                   /\ bucket' # bucket
                         => /\ thr[t].pc = "lock"
                            /\ bucket' = refill_locked(bucket, thr[t].now)
          /\ (thr'[t].pc = "failed" /\ thr[t].pc # "failed")
                => bucket' = bucket
          /\ (thr'[t].pc = "done" /\ thr[t].pc # "done")
                => consumed' - consumed = thr'[t].cost

\* a call that had the bucket to itself and failed leaves at least the
\* tokens it found (the capacity less what earlier calls took)
C28_LoneCall ==
    \A t \in Threads :
        (thr[t].pc = "failed" /\ \A u \in Threads \ {t} : thr[u].pc = "idle")
        => bucket.tokens >= bucket.capacity - consumed

\* C28: a consume call that ends with LocalRateLimitError takes nothing from
\* the bucket: every step of a call other than the one that returns leaves
\* at least the tokens it found, changing the bucket by a refill or not at
\* all, and the last-refill timestamp never moves backward.
C28_FailureDeductsNothing == [](C28_LoneCall) /\ [][C28_Step]_vars

\* a lone call slept, refilled the bucket above what it had found, and
\* failed: the refilled tokens are still there
C28_Witness ==
    \E t \in Threads : \E u \in Threads \ {t} :
        /\ thr[t].pc = "failed" /\ thr[t].sleeps >= 1
        /\ thr[u].pc = "idle"
        /\ bucket.last_refill > 0
        /\ bucket.tokens > bucket.capacity - consumed

\* a call that has the bucket to itself, asks for no more than the capacity,
\* found too few tokens at its first look and may wait as long as they take
LoneCallInBudget(t) ==
    /\ \A u \in Threads \ {t} : thr[u].pc = "idle"
    /\ thr[t].pc # "idle"
    /\ thr[t].cost <= bucket.capacity
    /\ thr[t].first_wait > 0
    /\ thr[t].max_wait >= thr[t].first_wait

\* what such a call does: one sleep of (cost - t) / refill_rate, then it
\* returns that duration and leaves the bucket empty
OneSleepThenEmpty(t) ==
    /\ thr[t].pc # "failed"
    /\ thr[t].sleeps <= 1
    /\ thr[t].pc = "sleeping" => thr[t].sleep_for = thr[t].first_wait
    /\ thr[t].pc = "done"
          => /\ thr[t].sleeps = 1
             /\ thr[t].waited = thr[t].first_wait
             /\ bucket.tokens = 0

\* C29 (as the specification states it): a lone call within its budget
\* sleeps exactly once, for (cost - t) / refill_rate, returns that duration
\* and leaves the bucket with 0 tokens.
C29_Claim ==
    \A t \in Threads : LoneCallInBudget(t) => OneSleepThenEmpty(t)

\* C29, amended: the same, when the clock moves only in the sleeper and by
\* exactly the duration asked for (an injected clock and sleeper); a clock
\* that runs on by itself shortens the sleep or leaves refilled tokens.
C29_ExactClock ==
    \A t \in Threads : (LoneCallInBudget(t) /\ exact) => OneSleepThenEmpty(t)

\* capacity 10 at 5 tokens/s, emptied; consume(2) slept 0.4 s once and
\* returned it, leaving no tokens
C29_Witness ==
    /\ bucket.capacity = 10 /\ bucket.refill_rate = 1 /\ consumed = 12
    /\ exact /\ LoneCallInBudget("t1")
    /\ thr["t1"].pc = "done" /\ thr["t1"].cost = 2
    /\ thr["t1"].sleeps = 1 /\ thr["t1"].waited = 2
    /\ bucket.tokens = 0

\* what a caller does after a look at the bucket: with the cost covered it
\* returns, having deducted the whole cost; otherwise it takes nothing and
\* goes on to sleep (no longer than to its deadline) or, at its deadline, to
\* raise
C30_Step ==
    \A t \in Threads :
        /\ (thr[t].pc = "lock" /\ thr'[t] # thr[t])
              => LET b == refill_locked(bucket, thr[t].now) IN
                 IF b.tokens >= thr[t].cost
                 THEN /\ thr'[t].pc = "done"
                      /\ bucket'.tokens = b.tokens - thr[t].cost
                      /\ consumed' = consumed + thr[t].cost
                 ELSE /\ thr'[t].pc = "check"
                      /\ thr'[t].last_wait_needed > 0
                      /\ bucket' = b /\ consumed' = consumed
        /\ (thr[t].pc = "check" /\ thr'[t] # thr[t])
              => \/ /\ thr'[t].pc = "sleeping"
                    /\ thr'[t].sleep_for > 0
                    /\ thr'[t].wake_at <= thr[t].deadline
                 \/ /\ thr'[t].pc = "failed"
                    /\ clock >= thr[t].deadline
        /\ (thr'[t].pc = "done" /\ thr[t].pc # "done" /\ thr'[t].cost > 0)
              => /\ thr[t].pc = "lock"
                 /\ bucket'.tokens >= 0
                 /\ consumed' - consumed = thr'[t].cost

\* C30: tokens are not reserved for waiting callers: a call that slept and
\* finds the refilled tokens gone sleeps again or raises at its deadline, and
\* a call returns only by deducting its whole cost in one critical section.
C30_NoReservation == [][C30_Step]_vars

\* two callers on the bucket of 4 at 10 tokens/s: one computed a wait of
\* 0.2 s at entry with 0.4 s allowed, slept, found the refill taken by the
\* other caller, slept again and failed at its deadline
C30_Witness ==
    \E t \in Threads : \E u \in Threads \ {t} :
        /\ exact
        /\ thr[t].pc = "failed" /\ thr[t].err.raised
        /\ thr[t].first_wait > 0 /\ thr[t].first_wait < thr[t].max_wait
        /\ thr[t].sleeps = 2
        /\ thr[u].pc = "done" /\ thr[u].cost > 0 /\ thr[u].sleeps >= 1

====
